---- MODULE Spec2Model ----
(***************************************************************************)
(* Model of the scheduling assistant kikuchi-mizuki/task_yoshimura:        *)
(*   - GoogleCalendarService.find_free_slots_for_day (calendar_service.py) *)
(*   - LineBotHandler._handle_availability_check     (line_bot_handler.py) *)
(*   - AIService.extract_dates_and_times / _supplement_times (ai_service)  *)
(*                                                                         *)
(* Python strings are sequences of one-character strings, so that          *)
(* formatting (strftime, f"{h:02d}:00"), parsing (strptime) and string     *)
(* comparison (max/min on "HH:MM" strings) are modelled by what they do.   *)
(* Japanese characters are written in ASCII:                               *)
(*   "kon" 今  "hon" 本  "nichi" 日  "myou" 明  "rai" 来  "shuu" 週        *)
(*   "ji" 時   "i" 以   "kou" 降   "owari" 終   "kara" から (2 chars, never *)
(*   split by any pattern)  "kan" 間  "no" の  "aki" 空  "ki" き           *)
(*   "nakaguro" ・  "nami" 〜  "zsp" full-width space                      *)
(*   "tou" 東  "kyou" 京  "dai" 大  "saka" 阪  "kai" 会  "gi" 議           *)
(*   "idou" 移動 (the travel keyword, matched only as a whole)             *)
(*   "yo" 予  "tei" 定  "(" （  ")" ）  "ou" 往  "fuku" 復  "ro" 路        *)
(*   "ta" た  "me" め  "a" あ  "ri" り  "hitsu" 必  "you" 要  "nl" newline *)
(***************************************************************************)
EXTENDS Integers, Sequences, FiniteSets, TLC

VARIABLES fs, av, nz

vars == <<fs, av, nz>>

(***************************************************************************)
(* Bounds of the model.                                                    *)
(***************************************************************************)
MaxBusy == 2

MaxDates == 2

(***************************************************************************)
(* Strings, times of day and their conversions.                            *)
(***************************************************************************)
\* Python None, in the one type every field value has (a sequence of strings)
None == <<"None">>

\* Python truthiness of d.get(k): neither None nor the empty string
Truthy(x) == x # None /\ x # <<>>

\* dict.get(key): the value, or None when the key is absent
Get(d, k) == IF k \in DOMAIN d THEN d[k] ELSE None

DigitSeq == <<"0", "1", "2", "3", "4", "5", "6", "7", "8", "9">>

DigitChars == {DigitSeq[i] : i \in 1..10}

DigitVal(c) == (CHOOSE i \in 1..10 : DigitSeq[i] = c) - 1

\* code-point order of the characters that occur in date and time strings
Ord(c) == IF c \in DigitChars THEN 48 + DigitVal(c)
          ELSE IF c = ":" THEN 58
          ELSE IF c = "-" THEN 45 ELSE 1000

\* Python's str < str: lexicographic by code point, a proper prefix is smaller
RECURSIVE StrLess(_, _)
StrLess(a, b) ==
    IF b = <<>> THEN FALSE
    ELSE IF a = <<>> THEN TRUE
    ELSE IF Ord(Head(a)) # Ord(Head(b)) THEN Ord(Head(a)) < Ord(Head(b))
    ELSE StrLess(Tail(a), Tail(b))

\* max(a, b) on strings: b only when b > a
StrMax(a, b) == IF StrLess(a, b) THEN b ELSE a

\* min(a, b) on strings: b only when b < a
StrMin(a, b) == IF StrLess(b, a) THEN b ELSE a

\* f"{n:02d}" for 0 <= n <= 99
Fmt2(n) == <<DigitSeq[(n \div 10) + 1], DigitSeq[(n % 10) + 1]>>

\* int(s) of a string of digits
RECURSIVE IntOf(_)
IntOf(s) == IF s = <<>> THEN 0
            ELSE 10 * IntOf(SubSeq(s, 1, Len(s) - 1)) + DigitVal(s[Len(s)])

MinutesPerDay == 1440

\* datetime.strftime('%H:%M') of an instant counted in minutes: the date and
\* everything but the hour and minute are dropped
StrfHM(t) == Fmt2((t % MinutesPerDay) \div 60) \o <<":">> \o Fmt2(t % 60)

\* the value strptime returns for "no match" (it raises ValueError)
ValueError == -1

AllDigits(s) == \A i \in 1..Len(s) : s[i] \in DigitChars

\* datetime.strptime(s, "%H:%M") as minutes of the day: %H is 2[0-3]|[0-1]\d|\d,
\* %M is [0-5]\d|\d, and the whole string has to be consumed
StrpHM(s) ==
    LET colons == {i \in 1..Len(s) : s[i] = ":"} IN
    IF Cardinality(colons) # 1 THEN ValueError
    ELSE LET c == CHOOSE i \in colons : TRUE
             hh == SubSeq(s, 1, c - 1)
             mm == SubSeq(s, c + 1, Len(s))
         IN IF /\ Len(hh) \in {1, 2} /\ AllDigits(hh) /\ IntOf(hh) <= 23
               /\ Len(mm) \in {1, 2} /\ AllDigits(mm) /\ IntOf(mm) <= 59
            THEN 60 * IntOf(hh) + IntOf(mm)
            ELSE ValueError

(***************************************************************************)
(* Civil dates and "YYYY-MM-DD" strings.                                   *)
(***************************************************************************)
IsLeap(y) == (y % 4 = 0 /\ y % 100 # 0) \/ y % 400 = 0

DaysInMonth(y, m) ==
    IF m = 2 THEN (IF IsLeap(y) THEN 29 ELSE 28)
    ELSE IF m \in {4, 6, 9, 11} THEN 30 ELSE 31

\* datetime(y, m, d) exists
ValidDate(y, m, d) == m \in 1..12 /\ d >= 1 /\ d <= DaysInMonth(y, m)

\* strftime('%Y-%m-%d')
StrfDate(y, m, d) ==
    Fmt2(y \div 100) \o Fmt2(y % 100) \o <<"-">> \o Fmt2(m) \o <<"-">> \o Fmt2(d)

\* datetime.strptime(s, "%Y-%m-%d") as <<y, m, d>>, <<>> when it raises:
\* four digits, one or two digits, one or two digits, and a date that exists
StrpDate(s) ==
    LET dashes == {i \in 1..Len(s) : s[i] = "-"} IN
    IF Cardinality(dashes) # 2 THEN <<>>
    ELSE LET a == CHOOSE i \in dashes : \A j \in dashes : i <= j
             b == CHOOSE i \in dashes : \A j \in dashes : i >= j
             yy == SubSeq(s, 1, a - 1)
             mm == SubSeq(s, a + 1, b - 1)
             dd == SubSeq(s, b + 1, Len(s))
         IN IF /\ Len(yy) = 4 /\ AllDigits(yy)
               /\ Len(mm) \in {1, 2} /\ AllDigits(mm)
               /\ Len(dd) \in {1, 2} /\ AllDigits(dd)
               /\ ValidDate(IntOf(yy), IntOf(mm), IntOf(dd))
            THEN <<IntOf(yy), IntOf(mm), IntOf(dd)>>
            ELSE <<>>

RECURSIVE DaysBeforeMonth(_, _)
DaysBeforeMonth(y, m) ==
    IF m = 1 THEN 0 ELSE DaysBeforeMonth(y, m - 1) + DaysInMonth(y, m - 1)

\* date.toordinal(): 0001-01-01 is day 1
ToOrdinal(y, m, d) ==
    LET p == y - 1 IN
    p * 365 + (p \div 4) - (p \div 100) + (p \div 400) + DaysBeforeMonth(y, m) + d

\* date.weekday(): Monday is 0, Sunday is 6
WeekdayOf(date) == (ToOrdinal(date[1], date[2], date[3]) + 6) % 7

\* datetime.strptime(f"{date_str} {time_str}", "%Y-%m-%d %H:%M") as minutes
\* from the midnight of that date, ValueError when it raises
StrpDateTime(date_str, time_str) ==
    IF StrpDate(date_str) = <<>> THEN ValueError ELSE StrpHM(time_str)

\* Python's `sub in s` on strings
Contains(sub, s) ==
    \E i \in 1..(Len(s) - Len(sub) + 1) : SubSeq(s, i, i + Len(sub) - 1) = sub

(***************************************************************************)
(* Calendar events as get_events_for_time_range returns them.  A timed     *)
(* event's start/end is an ISO dateTime: the day (counted from the day of  *)
(* the request frame), the wall-clock minute and the UTC offset written in *)
(* the string; an all-day event's start/end is a bare date.                *)
(***************************************************************************)
JSTOffset == 540

\* 'T' in start: the string is a dateTime, not a date
IsDateTime(iso) == "min" \in DOMAIN iso

\* datetime.fromisoformat(...).astimezone(jst) as minutes from the frame's
\* midnight in JST
ToJST(iso) == iso.day * MinutesPerDay + iso.min - iso.off + JSTOffset

TimedEvent(title, d1, m1, d2, m2, off) ==
    [title |-> title, location |-> <<>>, is_all_day |-> FALSE,
     start |-> [day |-> d1, min |-> m1, off |-> off],
     end |-> [day |-> d2, min |-> m2, off |-> off]]

AllDayEvent(title, location, d) ==
    [title |-> title, location |-> location, is_all_day |-> TRUE,
     start |-> [day |-> d], end |-> [day |-> d + 1]]

(***************************************************************************)
(* GoogleCalendarService.find_free_slots_for_day                           *)
(***************************************************************************)
IntMax(a, b) == IF a > b THEN a ELSE b

IntMin(a, b) == IF a < b THEN a ELSE b

\* the (busy_start, busy_end) pair of one event, <<>> when it is outside
\* the frame
BusyOf(event, start_dt, end_dt) ==
    LET s == IF IsDateTime(event.start) THEN ToJST(event.start)
             ELSE event.start.day * MinutesPerDay
        e == IF IsDateTime(event.start) THEN ToJST(event.end)
             ELSE event.start.day * MinutesPerDay + MinutesPerDay
    IN IF e <= start_dt \/ s >= end_dt THEN <<>>
       ELSE <<<<IntMax(s, start_dt), IntMin(e, end_dt)>>>>

RECURSIVE BusyTimes(_, _, _)
BusyTimes(events, start_dt, end_dt) ==
    IF events = <<>> THEN <<>>
    ELSE BusyOf(Head(events), start_dt, end_dt)
         \o BusyTimes(Tail(events), start_dt, end_dt)

\* sorted(busy_times, key=lambda x: x[0]): stable, by start only
RECURSIVE InsertByStart(_, _)
InsertByStart(b, sorted) ==
    IF sorted = <<>> THEN <<b>>
    ELSE IF b[1] < Head(sorted)[1] THEN <<b>> \o sorted
    ELSE <<Head(sorted)>> \o InsertByStart(b, Tail(sorted))

RECURSIVE SortByStart(_)
SortByStart(busy) ==
    IF busy = <<>> THEN <<>>
    ELSE InsertByStart(busy[Len(busy)], SortByStart(SubSeq(busy, 1, Len(busy) - 1)))

FreeSlot(a, b) == [start |-> StrfHM(a), end |-> StrfHM(b)]

\* current_time = max(current_time, busy_end)
AdvanceDropMax(current_time, busy_end) == busy_end

Advance(current_time, busy_end) == IntMax(current_time, busy_end)

RECURSIVE Sweep(_, _, _)
Sweep(busy, current_time, end_dt) ==
    IF busy = <<>>
    THEN IF current_time < end_dt THEN <<FreeSlot(current_time, end_dt)>> ELSE <<>>
    ELSE (IF current_time < Head(busy)[1]
          THEN <<FreeSlot(current_time, Head(busy)[1])>> ELSE <<>>)
         \o Sweep(Tail(busy), Advance(current_time, Head(busy)[2]), end_dt)

find_free_slots_for_day(start_dt, end_dt, events) ==
    IF events = <<>> THEN <<FreeSlot(start_dt, end_dt)>>
    ELSE LET busy_times == BusyTimes(events, start_dt, end_dt) IN
         IF busy_times = <<>> THEN <<FreeSlot(start_dt, end_dt)>>
         ELSE Sweep(SortByStart(busy_times), start_dt, end_dt)

(***************************************************************************)
(* Specification SpecFree: find_free_slots_for_day on bounded inputs.      *)
(***************************************************************************)
\* instants a frame or an event may start or end at (minutes of the day)
FreeGrid == {480, 600, 720, 840, 960}

FreeEvents ==
    {TimedEvent(<<"a">>, 0, p[1], 0, p[2], JSTOffset) :
        p \in {q \in FreeGrid \X FreeGrid : q[1] < q[2]}}
    \cup {TimedEvent(<<"z">>, 0, 60, 0, 180, 0),
          TimedEvent(<<"p">>, 0, 600, 0, 600, JSTOffset),
          TimedEvent(<<"n">>, -1, 1380, 0, 540, JSTOffset),
          AllDayEvent(<<"d">>, <<>>, 0),
          AllDayEvent(<<"y">>, <<>>, -1)}

RECURSIVE SeqsUpTo(_, _)
SeqsUpTo(S, n) ==
    IF n = 0 THEN {<<>>}
    ELSE LET shorter == SeqsUpTo(S, n - 1) IN
         shorter \cup {Append(q, x) : q \in {r \in shorter : Len(r) = n - 1}, x \in S}

Idle == [pc |-> "idle"]

InitFree ==
    /\ fs \in {[pc |-> "call", start_dt |-> s, end_dt |-> e, events |-> ev,
                free_slots |-> <<>>] :
                  s \in FreeGrid, e \in FreeGrid, ev \in SeqsUpTo(FreeEvents, MaxBusy)}
    /\ fs.start_dt < fs.end_dt
    /\ av = Idle
    /\ nz = Idle

FindFreeSlots ==
    /\ fs.pc = "call"
    /\ fs' = [fs EXCEPT !.pc = "done",
                        !.free_slots = find_free_slots_for_day(fs.start_dt, fs.end_dt, fs.events)]
    /\ UNCHANGED <<av, nz>>

NextFree == FindFreeSlots

SpecFree == InitFree /\ [][NextFree]_vars

(***************************************************************************)
(* Claims about find_free_slots_for_day (checked under SpecFree).          *)
(***************************************************************************)
\* the interval of minutes a reported slot covers, <<start, end>>
SlotSpan(slot) == <<StrpHM(slot.start), StrpHM(slot.end)>>

\* the interval event k of the input covers once clipped to the frame
\* (<<0, 0>>, empty, when the event is outside the frame)
ClippedSpan(k) ==
    LET b == BusyOf(fs.events[k], fs.start_dt, fs.end_dt) IN
    IF b = <<>> THEN <<0, 0>> ELSE b[1]

FreeSpans == [i \in 1..Len(fs.free_slots) |-> SlotSpan(fs.free_slots[i])]

BusySpans == [k \in 1..Len(fs.events) |-> ClippedSpan(k)]

Covers(span, m) == span[1] <= m /\ m < span[2]

\* two half-open intervals share a minute
Overlap(p, q) == IntMax(p[1], q[1]) < IntMin(p[2], q[2])

FreeNoGaps ==
    LET free == FreeSpans
        busy == BusySpans
    IN \A m \in fs.start_dt..(fs.end_dt - 1) :
        \/ \E i \in DOMAIN free : Covers(free[i], m)
        \/ \E k \in DOMAIN busy : Covers(busy[k], m)

FreeInsideFrame ==
    \A i \in DOMAIN FreeSpans :
        FreeSpans[i][1] < FreeSpans[i][2] =>
            fs.start_dt <= FreeSpans[i][1] /\ FreeSpans[i][2] <= fs.end_dt

FreeDisjoint ==
    LET free == FreeSpans
        busy == BusySpans
    IN /\ \A i, j \in DOMAIN free : i # j => ~Overlap(free[i], free[j])
       /\ \A i \in DOMAIN free : \A k \in DOMAIN busy : ~Overlap(free[i], busy[k])

BusyDisjoint ==
    \A k, l \in DOMAIN BusySpans : k # l => ~Overlap(BusySpans[k], BusySpans[l])

\* C1 as stated: the free intervals and the clipped busy intervals tile the
\* frame, no minute uncovered and no minute in two of the intervals
C1_TilesExactly ==
    fs.pc = "done" => FreeNoGaps /\ FreeInsideFrame /\ FreeDisjoint /\ BusyDisjoint

\* C1 amended: every minute of the frame lies in a free interval or in a
\* clipped busy interval, no minute lies in two free intervals or in a free
\* and a busy interval; busy intervals may overlap one another
C1_FreeComplementsBusy ==
    fs.pc = "done" => FreeNoGaps /\ FreeInsideFrame /\ FreeDisjoint

\* a frame with two overlapping busy intervals and free time on both sides
C1_Witness ==
    /\ fs.pc = "done"
    /\ Len(fs.free_slots) >= 2
    /\ \E k, l \in DOMAIN BusySpans :
          /\ k # l
          /\ BusySpans[k] # BusySpans[l]
          /\ Overlap(BusySpans[k], BusySpans[l])

(***************************************************************************)
(* GoogleCalendarService.get_events_for_time_range: the backend lists the  *)
(* events that overlap [timeMin, timeMax), ordered by start; any exception *)
(* (credentials, network, API error) is caught and [] is returned.         *)
(***************************************************************************)
\* the start and end of an event as minutes from the frame's midnight
EventSpan(event) ==
    IF IsDateTime(event.start) THEN <<ToJST(event.start), ToJST(event.end)>>
    ELSE <<event.start.day * MinutesPerDay, event.end.day * MinutesPerDay>>

\* events().list(timeMin, timeMax, singleEvents, orderBy='startTime')
EventsList(calendar, timeMin, timeMax) ==
    SelectSeq(calendar, LAMBDA ev : EventSpan(ev)[2] > timeMin /\ EventSpan(ev)[1] < timeMax)

\* a backend failure is caught inside: except Exception: return []
get_events_for_time_range(backend_ok, calendar, start_time, end_time) ==
    IF backend_ok THEN EventsList(calendar, start_time, end_time) ELSE <<>>

(***************************************************************************)
(* LineBotHandler._handle_availability_check                               *)
(***************************************************************************)
\* is_all_day and (location in event_location or location in event_title)
IsLocationMarker(event, location) ==
    event.is_all_day /\ (Contains(location, event.location) \/ Contains(location, event.title))

has_location_event_any(all_events, location) == all_events # <<>>

has_location_event(all_events, location) ==
    \E k \in 1..Len(all_events) : IsLocationMarker(all_events[k], location)

\* filtered_events with a location filter: everything but the matching
\* all-day markers
FilterLocation(all_events, location) ==
    SelectSeq(all_events, LAMBDA ev : ~IsLocationMarker(ev, location))

\* filtered_events without a location filter: everything but all-day events
FilterAllDay(all_events) == SelectSeq(all_events, LAMBDA ev : ~ev.is_all_day)

day_start == <<"0", "8", ":", "0", "0">>

day_end == <<"2", "3", ":", "5", "9">>

\* the travel-time filter keeps only the start margin
ShrinkStartOnly(slot, travel_time_minutes) ==
    LET available_start == StrpHM(slot.start) + travel_time_minutes
        available_end == StrpHM(slot.end)
    IN IF available_start < available_end
       THEN <<FreeSlot(available_start, available_end)>> ELSE <<>>

\* one free slot with the travel time taken off both ends, <<>> if nothing is left
Shrink(slot, travel_time_minutes) ==
    LET available_start == StrpHM(slot.start) + travel_time_minutes
        available_end == StrpHM(slot.end) - travel_time_minutes
    IN IF available_start < available_end
       THEN <<FreeSlot(available_start, available_end)>> ELSE <<>>

RECURSIVE TravelFilter(_, _)
TravelFilter(free_slots, travel_time_minutes) ==
    IF free_slots = <<>> THEN <<>>
    ELSE Shrink(Head(free_slots), travel_time_minutes)
         \o TravelFilter(Tail(free_slots), travel_time_minutes)

Frame(date_str, start_time, end_time, free_slots) ==
    [date |-> date_str, start_time |-> start_time, end_time |-> end_time,
     free_slots |-> free_slots]

\* The body of the loop over dates_info for one entry.  backend_ok and
\* calendar are what the calendar backend does when it is asked.  The result
\* says whether a frame is appended and what the call did on the way.
ProcessDate(date_info, location, travel_time_minutes, backend_ok, calendar) ==
    LET date_str == Get(date_info, "date")
        start_time == Get(date_info, "time")
        end_time == Get(date_info, "end_time")
        NoCall == [called |-> FALSE, failed |-> FALSE, all_events |-> <<>>, events |-> <<>>]
    IN
    IF ~(Truthy(date_str) /\ Truthy(start_time) /\ Truthy(end_time))
    THEN [out |-> "missing", frame |-> <<>>, lookup |-> NoCall]
    ELSE
    LET start_dt == StrpDateTime(date_str, start_time)
        end_dt == StrpDateTime(date_str, end_time)
    IN
    IF start_dt = ValueError \/ end_dt = ValueError
    THEN [out |-> "except", frame |-> <<Frame(date_str, start_time, end_time, <<>>)>>,
          lookup |-> NoCall]
    ELSE
    LET all_events == get_events_for_time_range(backend_ok, calendar, start_dt, end_dt)
        Called(events) == [called |-> TRUE, failed |-> ~backend_ok,
                           all_events |-> all_events, events |-> events]
    IN
    IF location # <<>> /\ ~has_location_event(all_events, location)
    THEN [out |-> "skipped", frame |-> <<>>, lookup |-> Called(<<>>)]
    ELSE
    LET events == IF location # <<>> THEN FilterLocation(all_events, location)
                  ELSE FilterAllDay(all_events)
        slot_start == StrMax(start_time, day_start)
        slot_end == StrMin(end_time, day_end)
        slot_start_dt == StrpDateTime(date_str, slot_start)
        slot_end_dt == StrpDateTime(date_str, slot_end)
        swept == find_free_slots_for_day(slot_start_dt, slot_end_dt, events)
        free_slots ==
            IF StrLess(slot_start, slot_end)
            THEN IF travel_time_minutes > 0
                 THEN TravelFilter(swept, travel_time_minutes) ELSE swept
            ELSE <<>>
    IN [out |-> "frame", frame |-> <<Frame(date_str, slot_start, slot_end, free_slots)>>,
        lookup |-> Called(events)]

(***************************************************************************)
(* AIService.format_free_slots_response_by_frame                           *)
(***************************************************************************)
\* tuple comparison of (start, end) pairs of strings
PairLess(p, q) == StrLess(p[1], q[1]) \/ (p[1] = q[1] /\ StrLess(p[2], q[2]))

\* sorted(S) for a set of strings
RECURSIVE SortStrings(_)
SortStrings(S) ==
    IF S = {} THEN <<>>
    ELSE LET least == CHOOSE x \in S : \A y \in S : ~StrLess(y, x)
         IN <<least>> \o SortStrings(S \ {least})

\* sorted(S) for a set of (start, end) pairs
RECURSIVE SortPairs(_)
SortPairs(S) ==
    IF S = {} THEN <<>>
    ELSE LET least == CHOOSE x \in S : \A y \in S : ~PairLess(y, x)
         IN <<least>> \o SortPairs(S \ {least})

\* date_slots[date]: the set of (start, end) pairs of all frames of the date
DateSlots(frames, date) ==
    UNION {{<<frames[k].free_slots[j].start, frames[k].free_slots[j].end>> :
                j \in 1..Len(frames[k].free_slots)} :
           k \in {n \in 1..Len(frames) : frames[n].date = date}}

NoFreeTime == [kind |-> "no_free_time", days |-> <<>>]

\* lines 857-859: the line f"{dt.month}/{dt.day}（{weekday}）" of a date that
\* has slots, as <<month, day, weekday>>; strptime raises on another string
DayHeader(date) ==
    LET dt == StrpDate(date) IN
    IF dt = <<>> THEN <<ValueError>> ELSE <<dt[2], dt[3], WeekdayOf(dt)>>

\* the variant of the formatter without the test of lines 865-867
format_free_slots_response_by_frame_header_kept(free_slots_by_frame) ==
    IF free_slots_by_frame = <<>> THEN NoFreeTime
    ELSE LET dates == SortStrings({free_slots_by_frame[k].date :
                                         k \in 1..Len(free_slots_by_frame)})
             all == [n \in 1..Len(dates) |->
                        [date |-> dates[n],
                         slots |-> SortPairs(DateSlots(free_slots_by_frame, dates[n]))]]
             shown == SelectSeq(all, LAMBDA day : day.slots # <<>>)
         IN [kind |-> "free_time",
             days |-> [n \in 1..Len(shown) |->
                          [date |-> shown[n].date, header |-> DayHeader(shown[n].date),
                           slots |-> shown[n].slots]]]

\* the response as its kind and, under the header of each date that is
\* shown, the lines of its slots
format_free_slots_response_by_frame(free_slots_by_frame) ==
    IF free_slots_by_frame = <<>> THEN NoFreeTime
    ELSE LET dates == SortStrings({free_slots_by_frame[k].date :
                                         k \in 1..Len(free_slots_by_frame)})
             all == [n \in 1..Len(dates) |->
                        [date |-> dates[n],
                         slots |-> SortPairs(DateSlots(free_slots_by_frame, dates[n]))]]
             shown == SelectSeq(all, LAMBDA day : day.slots # <<>>)
         IN IF shown = <<>> THEN NoFreeTime
            ELSE [kind |-> "free_time",
                  days |-> [n \in 1..Len(shown) |->
                               [date |-> shown[n].date, header |-> DayHeader(shown[n].date),
                                slots |-> shown[n].slots]]]

NotRecognized == [kind |-> "not_recognized", days |-> <<>>]

(***************************************************************************)
(* Specification SpecAvail: one call of _handle_availability_check by an   *)
(* authenticated user, the loop taken one entry at a time.                 *)
(***************************************************************************)
Tokyo == <<"tou", "kyou">>

Date1 == StrfDate(2025, 7, 10)

Date2 == StrfDate(2025, 7, 11)

HM(h, m) == Fmt2(h) \o <<":">> \o Fmt2(m)

Entry(date_str, time, end_time) == [date |-> date_str, time |-> time, end_time |-> end_time]

\* the entries a request may hold: whole frames, a frame ending at "24:00"
\* (which strptime rejects), a frame whose end is before its start, an
\* entry that _supplement_times has returned without a date, and a frame
\* 1:00-2:00 with the hours as the upstream reply wrote them, which
\* strptime('%H:%M') accepts
AvailEntries ==
    {Entry(Date1, HM(9, 0), HM(18, 0)),
     Entry(Date2, HM(10, 0), HM(23, 59)),
     Entry(Date2, HM(22, 0), HM(24, 0)),
     Entry(Date1, HM(13, 0), HM(0, 0)),
     [time |-> day_start, end_time |-> day_end],
     Entry(Date1, <<"1", ":", "0", "0">>, <<"2", ":", "0", "0">>)}

\* what the calendar may hold on a requested day, in start order: two
\* all-day markers, a meeting 10:00-11:00 (+09:00), one 05:00Z-05:30Z
CalendarDay ==
    <<AllDayEvent(Tokyo \o <<"kai", "gi">>, <<>>, 0),
      AllDayEvent(<<"dai", "saka">>, <<>>, 0),
      [TimedEvent(<<"kai", "gi">>, 0, 600, 0, 660, JSTOffset) EXCEPT !.location = Tokyo],
      TimedEvent(<<"z">>, 0, 300, 0, 330, 0)>>

\* the backend answers with the events of the day (any sublist of
\* CalendarDay), or fails
BackendOutcomes ==
    {[ok |-> TRUE,
      calendar |-> SelectSeq(CalendarDay, LAMBDA ev : ev \in keep)] :
        keep \in SUBSET {CalendarDay[k] : k \in 1..Len(CalendarDay)}}
    \cup {[ok |-> FALSE, calendar |-> <<>>]}

TravelTimes == {0, 30}

NoLookup == [called |-> FALSE, failed |-> FALSE, all_events |-> <<>>, events |-> <<>>]

InitAvail ==
    /\ av \in {[pc |-> "loop", dates_info |-> d, location |-> l, travel_time_minutes |-> t,
                i |-> 1, free_slots_by_frame |-> <<>>, response |-> NoFreeTime,
                out |-> "none", lookup |-> NoLookup, gated |-> {}] :
                  d \in SeqsUpTo(AvailEntries, MaxDates), l \in {<<>>, Tokyo},
                  t \in TravelTimes}
    /\ fs = Idle
    /\ nz = Idle

\* if not dates_info: return the "could not recognize the date" message
AvailNoDates ==
    /\ av.pc = "loop"
    /\ av.dates_info = <<>>
    /\ av' = [av EXCEPT !.pc = "done", !.response = NotRecognized]
    /\ UNCHANGED <<fs, nz>>

\* one iteration of `for i, date_info in enumerate(dates_info)`
AvailDate ==
    /\ av.pc = "loop"
    /\ av.i <= Len(av.dates_info)
    /\ \E backend \in BackendOutcomes :
       \E r \in {ProcessDate(av.dates_info[av.i], av.location, av.travel_time_minutes,
                             backend.ok, backend.calendar)} :
          av' = [av EXCEPT
                   !.i = @ + 1,
                   !.free_slots_by_frame = @ \o r.frame,
                   !.out = r.out,
                   !.lookup = r.lookup,
                   !.gated = IF \E k \in 1..Len(r.lookup.all_events) :
                                   IsLocationMarker(r.lookup.all_events[k], av.location)
                             THEN @ \cup {av.dates_info[av.i].date} ELSE @]
    /\ UNCHANGED <<fs, nz>>

\* after the loop: format_free_slots_response_by_frame and return
AvailRespond ==
    /\ av.pc = "loop"
    /\ av.dates_info # <<>>
    /\ av.i > Len(av.dates_info)
    /\ av' = [av EXCEPT !.pc = "done",
                        !.response = format_free_slots_response_by_frame(av.free_slots_by_frame)]
    /\ UNCHANGED <<fs, nz>>

NextAvail == AvailNoDates \/ AvailDate \/ AvailRespond

SpecAvail == InitAvail /\ [][NextAvail]_vars

(***************************************************************************)
(* Claims about _handle_availability_check (checked under SpecAvail).      *)
(* av.out and av.lookup describe the entry processed last: what became of  *)
(* it, and what the calendar lookup returned for it.                       *)
(***************************************************************************)
LastFrame == av.free_slots_by_frame[Len(av.free_slots_by_frame)]

FrameAppended == av.out \in {"frame", "except"}

\* C2: a date whose calendar lookup failed is recorded with an explicit error
\* marker and an empty result, never as free time, and the loop goes on to
\* the other dates of the request
C2_FailedDateMarked ==
    /\ av.lookup.failed =>
          /\ FrameAppended
          /\ "error" \in DOMAIN LastFrame
          /\ LastFrame.free_slots = <<>>
    /\ av.pc = "done" /\ av.dates_info # <<>> => av.i = Len(av.dates_info) + 1

\* the free slots the handler would report for the last frame from the timed
\* events of the lookup alone
FreeFromTimedOnly ==
    LET timed == FilterAllDay(av.lookup.all_events)
        swept == find_free_slots_for_day(StrpHM(LastFrame.start_time),
                                         StrpHM(LastFrame.end_time), timed)
    IN IF ~StrLess(LastFrame.start_time, LastFrame.end_time) THEN <<>>
       ELSE IF av.travel_time_minutes > 0
            THEN TravelFilter(swept, av.travel_time_minutes) ELSE swept

\* C3: with or without a location filter no all-day event reaches the sweep,
\* so the free intervals of a frame are those its timed events leave
C3_AllDayNeverSubtracts ==
    av.out = "frame" =>
        /\ \A k \in 1..Len(av.lookup.events) : ~av.lookup.events[k].is_all_day
        /\ LastFrame.free_slots = FreeFromTimedOnly

\* the result of the sweep for the last frame, as intervals of minutes
SweptSpans ==
    LET swept == find_free_slots_for_day(StrpHM(LastFrame.start_time),
                                         StrpHM(LastFrame.end_time), av.lookup.events)
    IN [k \in 1..Len(swept) |-> SlotSpan(swept[k])]

ReportedSpans == [k \in 1..Len(LastFrame.free_slots) |-> SlotSpan(LastFrame.free_slots[k])]

TravelCase ==
    /\ av.out = "frame"
    /\ av.travel_time_minutes > 0
    /\ StrLess(LastFrame.start_time, LastFrame.end_time)

\* C8: with a travel time T > 0 every interval (start, end) of the sweep is
\* reported as (start+T, end-T), or dropped when start+T >= end-T; a reported
\* interval is at least T minutes from the frame's edges and from every busy
\* interval of the sweep
C8_TravelMargin ==
    TravelCase =>
        LET T == av.travel_time_minutes
            shrunk == [k \in DOMAIN SweptSpans |-> <<SweptSpans[k][1] + T, SweptSpans[k][2] - T>>]
        IN /\ ReportedSpans = SelectSeq(shrunk, LAMBDA p : p[1] < p[2])
           /\ \A k \in DOMAIN ReportedSpans :
                 /\ ReportedSpans[k][1] < ReportedSpans[k][2]
                 /\ StrpHM(LastFrame.start_time) + T <= ReportedSpans[k][1]
                 /\ ReportedSpans[k][2] + T <= StrpHM(LastFrame.end_time)
                 /\ \A j \in 1..Len(av.lookup.events) :
                       \/ ReportedSpans[k][2] + T <= EventSpan(av.lookup.events[j])[1]
                       \/ EventSpan(av.lookup.events[j])[2] + T <= ReportedSpans[k][1]

\* a frame where the travel time drops one interval of the sweep and
\* shrinks another, next to a busy interval
C8_Witness ==
    /\ TravelCase
    /\ av.lookup.events # <<>>
    /\ LastFrame.free_slots # <<>>
    /\ Len(LastFrame.free_slots) < Len(SweptSpans)

HasMarker(all_events) ==
    \E k \in 1..Len(all_events) : IsLocationMarker(all_events[k], av.location)

\* C9 as stated: with a location filter a date contributes a frame only if an
\* all-day event of the date names the location, and no other date appears
\* in the response
C9_FrameOnlyWithMarker ==
    av.location # <<>> =>
        /\ FrameAppended => av.lookup.called /\ HasMarker(av.lookup.all_events)
        /\ av.pc = "done" =>
              \A k \in 1..Len(av.response.days) : av.response.days[k].date \in av.gated

\* C9 amended: with a location filter a date contributes free intervals only
\* if an all-day event of the date names the location, and no other date
\* appears in the response (a frame whose date or time does not parse is
\* still recorded, with no free interval)
C9_FreeOnlyWithMarker ==
    av.location # <<>> =>
        /\ FrameAppended /\ LastFrame.free_slots # <<>> =>
              av.lookup.called /\ HasMarker(av.lookup.all_events)
        /\ av.out = "frame" => HasMarker(av.lookup.all_events)
        /\ av.pc = "done" =>
              \A k \in 1..Len(av.response.days) : av.response.days[k].date \in av.gated

\* a request with a location filter answered with one date, after another
\* date without a marker was skipped
C9_Witness ==
    /\ av.location # <<>>
    /\ av.pc = "done"
    /\ Len(av.dates_info) = 2
    /\ \A k \in 1..2 : "date" \in DOMAIN av.dates_info[k]
    /\ av.dates_info[1].date # av.dates_info[2].date
    /\ Len(av.response.days) = 1
    /\ Len(av.free_slots_by_frame) = 1

(***************************************************************************)
(* Regular expressions as the re module matches them.  Every pattern used  *)
(* by the program is a sequence of items, each a character class with a    *)
(* greedy repetition {min,max}; the matcher backtracks from the longest    *)
(* repetition down, as re does.  A match is the sequence of the positions  *)
(* just after each item.                                                   *)
(***************************************************************************)
NoMatch == <<-1>>

Item(cls, min, max) == [cls |-> cls, min |-> min, max |-> max]

\* a literal character
L(c) == Item({c}, 1, 1)

\* how many characters from pos on are in cls, max at most
RECURSIVE RunLength(_, _, _, _)
RunLength(cls, s, pos, max) ==
    IF max = 0 \/ pos > Len(s) \/ s[pos] \notin cls THEN 0
    ELSE 1 + RunLength(cls, s, pos + 1, max - 1)

RECURSIVE MatchFrom(_, _, _, _)
RECURSIVE TryCount(_, _, _, _, _)
\* items k.. of re matched from position pos
MatchFrom(re, k, s, pos) ==
    IF k > Len(re) THEN <<>>
    ELSE TryCount(re, k, s, pos, RunLength(re[k].cls, s, pos, re[k].max))

\* item k taking n characters, then fewer
TryCount(re, k, s, pos, n) ==
    IF n < re[k].min THEN NoMatch
    ELSE LET rest == MatchFrom(re, k + 1, s, pos + n) IN
         IF rest # NoMatch THEN <<pos + n>> \o rest
         ELSE TryCount(re, k, s, pos, n - 1)

\* re.search from position `from`: the leftmost match, as its start and the
\* end of each item; NoMatch if there is none
RECURSIVE SearchFrom(_, _, _)
SearchFrom(re, s, from) ==
    IF from > Len(s) THEN NoMatch
    ELSE LET ends == MatchFrom(re, 1, s, from) IN
         IF ends # NoMatch THEN <<from>> \o ends
         ELSE SearchFrom(re, s, from + 1)

Search(re, s) == SearchFrom(re, s, 1)

Found(re, s) == Search(re, s) # NoMatch

\* the text item k of a match took (a group of the pattern)
Group(s, match, k) == SubSeq(s, match[k], match[k + 1] - 1)

\* re.findall: the successive non-overlapping matches, left to right
RECURSIVE FindAllFrom(_, _, _)
FindAllFrom(re, s, from) ==
    LET match == SearchFrom(re, s, from) IN
    IF match = NoMatch THEN <<>>
    ELSE <<match>> \o FindAllFrom(re, s, match[Len(match)])

FindAll(re, s) == FindAllFrom(re, s, 1)

D12 == Item(DigitChars, 1, 2)

D02 == Item(DigitChars, 0, 2)

\* [\-〜~]
Dash == Item({"-", "nami", "~"}, 1, 1)

OptColon == Item({":"}, 0, 1)

\* \s
WhiteSpace == {" ", "nl", "zsp"}

\* 来週
NextWeekCue == <<L("rai"), L("shuu")>>

\* (\d{1,2})/(\d{1,2})[\s　]*([0-9]{1,2}):?([0-9]{0,2})[\-〜~]([0-9]{1,2}):?([0-9]{0,2})
pattern1 == <<D12, L("/"), D12, Item(WhiteSpace, 0, 99), D12, OptColon, D02, Dash,
              D12, OptColon, D02>>

\* [・\-]\s*(\d{1,2})/(\d{1,2})\s*([0-9]{1,2})-([0-9]{1,2})時
pattern2 == <<Item({"nakaguro", "-"}, 1, 1), Item(WhiteSpace, 0, 99), D12, L("/"), D12,
              Item(WhiteSpace, 0, 99), D12, L("-"), D12, L("ji")>>

\* (\d{1,2})/(\d{1,2})\s*([0-9]{1,2})時?-([0-9]{1,2})時?
pattern3 == <<D12, L("/"), D12, Item(WhiteSpace, 0, 99), D12, Item({"ji"}, 0, 1), L("-"),
              D12, Item({"ji"}, 0, 1)>>

\* (\d{1,2})日\s*([0-9]{1,2}):?([0-9]{0,2})[\-〜~]([0-9]{1,2}):?([0-9]{0,2})
pattern4 == <<D12, L("nichi"), Item(WhiteSpace, 0, 99), D12, OptColon, D02, Dash,
              D12, OptColon, D02>>

\* pattern4 followed by /([0-9]{1,2}):?([0-9]{0,2})[\-〜~]([0-9]{1,2}):?([0-9]{0,2})
pattern5 == pattern4 \o <<L("/"), D12, OptColon, D02, Dash, D12, OptColon, D02>>

(***************************************************************************)
(* The current moment and date arithmetic.  `now` is datetime.now(jst):    *)
(* a civil date and the minute of the day.                                 *)
(***************************************************************************)
Now(y, m, d, minute) == [year |-> y, month |-> m, day |-> d, minute |-> minute]

\* now.weekday()
weekday(now) == WeekdayOf(<<now.year, now.month, now.day>>)

NextDay(date) ==
    IF date[3] < DaysInMonth(date[1], date[2]) THEN <<date[1], date[2], date[3] + 1>>
    ELSE IF date[2] < 12 THEN <<date[1], date[2] + 1, 1>>
    ELSE <<date[1] + 1, 1, 1>>

\* (now + timedelta(days=n)) as <<y, m, d>>
RECURSIVE AddDays(_, _)
AddDays(date, n) == IF n = 0 THEN date ELSE AddDays(NextDay(date), n - 1)

Today(now) == <<now.year, now.month, now.day>>

\* (now + timedelta(days=n)).strftime('%Y-%m-%d')
StrfDay(now, n) ==
    LET date == AddDays(Today(now), n) IN StrfDate(date[1], date[2], date[3])

(***************************************************************************)
(* AIService._supplement_times, step 1: the repair of one upstream entry.  *)
(* An entry is a function from its keys to strings; a rule that raises     *)
(* (strptime on a time that is not H:M) yields Raised.                     *)
(***************************************************************************)
\* d[k] = v
Set(d, k, v) == [x \in (DOMAIN d) \cup {k} |-> IF x = k THEN v ELSE d[x]]

Raised == [raise |-> <<>>]

IsRaised(d) == "raise" \in DOMAIN d

\* f"{hour:02d}:00"
HourStr(hour) == Fmt2(hour) \o <<":", "0", "0">>

AllDayStart == <<"0", "0", ":", "0", "0">>

\* d.get('description', '') or original_text
Phrase(d, original_text) ==
    IF Truthy(Get(d, "description")) THEN d.description ELSE original_text

\* lines 158-161: (\d{1,2})[\-〜~](\d{1,2})時 sets both times
RangeRule(d, phrase) ==
    LET range_match == Search(<<D12, Dash, D12, L("ji")>>, phrase) IN
    IF range_match # NoMatch
    THEN Set(Set(d, "time", HourStr(IntOf(Group(phrase, range_match, 1)))),
             "end_time", HourStr(IntOf(Group(phrase, range_match, 3))))
    ELSE d

\* lines 163-167: (\d{1,2})時以降 when a time is still missing
AfterRule(d, phrase) ==
    LET m == Search(<<D12, L("ji"), L("i"), L("kou")>>, phrase) IN
    IF (~Truthy(Get(d, "time")) \/ ~Truthy(Get(d, "end_time"))) /\ m # NoMatch
    THEN Set(Set(d, "time", HourStr(IntOf(Group(phrase, m, 1)))), "end_time", day_end)
    ELSE d

\* line 169: the entry has no times, or the phrase has 終日
AllDayApplies(d, phrase) ==
    \/ ~Truthy(Get(d, "time")) /\ ~Truthy(Get(d, "end_time"))
    \/ Found(<<L("owari"), L("nichi")>>, phrase)

\* lines 177-182: 明日
TomorrowRule(d, phrase, now) ==
    IF Found(<<L("myou"), L("nichi")>>, phrase)
    THEN LET a == Set(d, "date", StrfDay(now, 1))
             b == IF ~Truthy(Get(a, "time")) THEN Set(a, "time", day_start) ELSE a
         IN IF ~Truthy(Get(b, "end_time")) THEN Set(b, "end_time", day_end) ELSE b
    ELSE d

\* strptime(d['time'], "%H:%M") + timedelta(hours=1) written to end_time
EndOneHourLater(d) ==
    IF StrpHM(d.time) = ValueError THEN Raised
    ELSE Set(d, "end_time", StrfHM(StrpHM(d.time) + 60))

\* the variant of TodayRule that keeps an end time that is already set
TodayRuleKeepEnd(d, phrase, now, first) ==
    IF IsRaised(d) \/ ~Found(<<L(first), L("nichi")>>, phrase) THEN d
    ELSE LET a == Set(d, "date", StrfDay(now, 0))
             time_match == Search(<<L(first), L("nichi"), D12, L("ji")>>, phrase)
             b == IF time_match # NoMatch
                  THEN Set(a, "time", HourStr(IntOf(Group(phrase, time_match, 3))))
                  ELSE IF ~Truthy(Get(a, "time")) THEN Set(a, "time", StrfHM(now.minute))
                  ELSE a
         IN IF Truthy(Get(b, "end_time")) THEN b ELSE EndOneHourLater(b)

\* lines 184-200 (今日, first "kon") and 202-219 (本日, first "hon"): the cue
\* and the cue followed by (\d{1,2})時
TodayRule(d, phrase, now, first) ==
    IF IsRaised(d) \/ ~Found(<<L(first), L("nichi")>>, phrase) THEN d
    ELSE LET a == Set(d, "date", StrfDay(now, 0))
             time_match == Search(<<L(first), L("nichi"), D12, L("ji")>>, phrase)
             hour == IntOf(Group(phrase, time_match, 3))
             b == IF time_match # NoMatch
                  THEN Set(Set(a, "time", HourStr(hour)), "end_time", HourStr(hour + 1))
                  ELSE IF ~Truthy(Get(a, "time")) THEN Set(a, "time", StrfHM(now.minute))
                  ELSE a
         IN IF Truthy(Get(b, "time")) THEN EndOneHourLater(b) ELSE b

\* the variant of days_until_next_monday without the step from 0 to 7
days_until_next_monday_or_today(now) == (7 - weekday(now)) % 7

\* lines 223-225
days_until_next_monday(now) ==
    IF (7 - weekday(now)) % 7 = 0 THEN 7 ELSE (7 - weekday(now)) % 7

\* lines 229-232
week_dates(now) == [i \in 1..7 |-> StrfDay(now, days_until_next_monday(now) + i - 1)]

\* lines 236-240
week_entry(week_date) == [date |-> week_date, time |-> day_start, end_time |-> day_end]

\* lines 235-243: each week date in turn, unless an entry of new_dates has it
RECURSIVE AddWeek(_, _)
AddWeek(new_dates, dates) ==
    IF dates = <<>> THEN new_dates
    ELSE AddWeek(IF \E i \in 1..Len(new_dates) : Get(new_dates[i], "date") = Head(dates)
                 THEN new_dates
                 ELSE Append(new_dates, week_entry(Head(dates))),
                 Tail(dates))

\* the variant of WeekFromTodayRule that leaves the times as they are
WeekFromTodayRuleKeepTimes(d, phrase, now) ==
    IF Found(<<L("kon"), L("nichi"), L("kara"), L("1"), L("shuu"), L("kan")>>, phrase)
    THEN Set(Set(d, "date", StrfDay(now, 0)), "end_date", StrfDay(now, 6))
    ELSE d

\* lines 248-252: 今日から1週間
WeekFromTodayRule(d, phrase, now) ==
    IF Found(<<L("kon"), L("nichi"), L("kara"), L("1"), L("shuu"), L("kan")>>, phrase)
    THEN Set(Set(Set(Set(d, "date", StrfDay(now, 0)), "end_date", StrfDay(now, 6)),
                 "time", AllDayStart), "end_time", day_end)
    ELSE d

\* lines 254-259
EndDefaultRule(d) ==
    IF IsRaised(d) THEN d
    ELSE IF Truthy(Get(d, "time")) /\ ~Truthy(Get(d, "end_time")) THEN EndOneHourLater(d)
    ELSE d

\* str(v) inside an f-string
Str(v) == IF v = None THEN <<"N", "o", "n", "e">> ELSE v

\* d.get(k, '')
GetOrEmpty(d, k) == IF k \in DOMAIN d THEN d[k] ELSE <<>>

\* f"予定（{date} {t}〜{e}）"
SynthTitle(date, t, e) ==
    <<"yo", "tei", "(">> \o Str(date) \o <<" ">> \o Str(t) \o <<"nami">> \o Str(e) \o <<")">>

\* lines 261-267
TitleRule(d, task_type) ==
    IF IsRaised(d) THEN d
    ELSE IF ~Truthy(Get(d, "title"))
    THEN IF Truthy(Get(d, "description")) THEN Set(d, "title", d.description)
         ELSE IF task_type = <<"add_event">>
         THEN Set(d, "title", SynthTitle(GetOrEmpty(d, "date"), GetOrEmpty(d, "time"),
                                         GetOrEmpty(d, "end_time")))
         ELSE d
    ELSE d

\* the variant of BothTimesSet under which no entry is passed through
BothTimesSetNever(d) == FALSE

\* line 153: d.get('time') and d.get('end_time')
BothTimesSet(d) == Truthy(Get(d, "time")) /\ Truthy(Get(d, "end_time"))

Step(raised, new_dates, allday_dates, rule) ==
    [raised |-> raised, new_dates |-> new_dates, allday_dates |-> allday_dates,
     rule |-> rule]

\* lines 149-268: one iteration of `for d in parsed['dates']`
RepairEntry(d, original_text, now, task_type, new_dates, allday_dates) ==
    LET phrase == Phrase(d, original_text) IN
    IF BothTimesSet(d)
    THEN Step(FALSE, Append(new_dates, d), allday_dates, "pass")
    ELSE
    LET d2 == AfterRule(RangeRule(d, phrase), phrase)
        allday == AllDayApplies(d2, phrase)
        d3 == IF allday THEN Set(Set(d2, "time", AllDayStart), "end_time", day_end) ELSE d2
    IN
    IF allday /\ Get(d3, "date") \in allday_dates
    THEN Step(FALSE, new_dates, allday_dates, "allday_duplicate")
    ELSE
    LET seen == IF allday THEN allday_dates \cup {Get(d3, "date")} ELSE allday_dates
        d4 == TomorrowRule(d3, phrase, now)
        d5 == TodayRule(d4, phrase, now, "kon")
        d6 == TodayRule(d5, phrase, now, "hon")
    IN
    IF IsRaised(d6) THEN Step(TRUE, new_dates, seen, "raise")
    ELSE IF Found(NextWeekCue, phrase)
    THEN Step(FALSE, AddWeek(new_dates, week_dates(now)), seen, "next_week")
    ELSE
    LET d8 == TitleRule(EndDefaultRule(WeekFromTodayRule(d6, phrase, now)), task_type) IN
    IF IsRaised(d8) THEN Step(TRUE, new_dates, seen, "raise")
    ELSE Step(FALSE, Append(new_dates, d8), seen, "repair")

(***************************************************************************)
(* AIService._supplement_times, step 2: the spans of the raw text.         *)
(* A candidate is what one regex match gives: month (0 when the pattern    *)
(* has only a day), day, start and end.                                    *)
(***************************************************************************)
\* f"{int(h):02d}:{m if m else '00'}"
HourMin(h, m) == Fmt2(IntOf(h)) \o <<":">> \o (IF m # <<>> THEN m ELSE <<"0", "0">>)

Candidate(month, day, start_time, end_time) ==
    [month |-> month, day |-> day, start_time |-> start_time, end_time |-> end_time]

\* lines 272-285
Candidates1(text) ==
    LET ms == FindAll(pattern1, text) IN
    [i \in 1..Len(ms) |->
        Candidate(IntOf(Group(text, ms[i], 1)), IntOf(Group(text, ms[i], 3)),
                  HourMin(Group(text, ms[i], 5), Group(text, ms[i], 7)),
                  HourMin(Group(text, ms[i], 9), Group(text, ms[i], 11)))]

\* lines 298-311
Candidates2(text) ==
    LET ms == FindAll(pattern2, text) IN
    [i \in 1..Len(ms) |->
        Candidate(IntOf(Group(text, ms[i], 3)), IntOf(Group(text, ms[i], 5)),
                  HourStr(IntOf(Group(text, ms[i], 7))),
                  HourStr(IntOf(Group(text, ms[i], 9))))]

\* lines 324-337
Candidates3(text) ==
    LET ms == FindAll(pattern3, text) IN
    [i \in 1..Len(ms) |->
        Candidate(IntOf(Group(text, ms[i], 1)), IntOf(Group(text, ms[i], 3)),
                  HourStr(IntOf(Group(text, ms[i], 5))),
                  HourStr(IntOf(Group(text, ms[i], 8))))]

\* lines 352-370
Candidates4(text) ==
    LET ms == FindAll(pattern4, text) IN
    [i \in 1..Len(ms) |->
        Candidate(0, IntOf(Group(text, ms[i], 1)),
                  HourMin(Group(text, ms[i], 4), Group(text, ms[i], 6)),
                  HourMin(Group(text, ms[i], 8), Group(text, ms[i], 10)))]

\* lines 385-431: two time frames of one day
RECURSIVE Flatten(_)
Flatten(ss) == IF ss = <<>> THEN <<>> ELSE Head(ss) \o Flatten(Tail(ss))

Candidates5(text) ==
    LET ms == FindAll(pattern5, text) IN
    Flatten([i \in 1..Len(ms) |->
        <<Candidate(0, IntOf(Group(text, ms[i], 1)),
                    HourMin(Group(text, ms[i], 4), Group(text, ms[i], 6)),
                    HourMin(Group(text, ms[i], 8), Group(text, ms[i], 10))),
          Candidate(0, IntOf(Group(text, ms[i], 1)),
                    HourMin(Group(text, ms[i], 12), Group(text, ms[i], 14)),
                    HourMin(Group(text, ms[i], 16), Group(text, ms[i], 18)))>>])

\* str.split('\n')
RECURSIVE SplitLines(_)
SplitLines(text) ==
    IF \A i \in 1..Len(text) : text[i] # "nl" THEN <<text>>
    ELSE LET i == CHOOSE i \in 1..Len(text) :
                     text[i] = "nl" /\ \A j \in 1..(i - 1) : text[j] # "nl"
         IN <<SubSeq(text, 1, i - 1)>> \o SplitLines(SubSeq(text, i + 1, Len(text)))

\* str.strip()
RECURSIVE Strip(_)
Strip(s) ==
    IF s = <<>> THEN s
    ELSE IF Head(s) \in WhiteSpace THEN Strip(Tail(s))
    ELSE IF s[Len(s)] \in WhiteSpace THEN Strip(SubSeq(s, 1, Len(s) - 1))
    ELSE s

\* lines 436-470: the day of a line, (\d{1,2})日, with each time frame of the
\* line, ([0-9]{1,2}):?([0-9]{0,2})[\-〜~]([0-9]{1,2}):?([0-9]{0,2})
LineCandidates(line) ==
    LET day_match == Search(<<D12, L("nichi")>>, line)
        time_matches == FindAll(<<D12, OptColon, D02, Dash, D12, OptColon, D02>>, line)
    IN IF line = <<>> \/ day_match = NoMatch THEN <<>>
       ELSE [i \in 1..Len(time_matches) |->
               Candidate(0, IntOf(Group(line, day_match, 1)),
                         HourMin(Group(line, time_matches[i], 1), Group(line, time_matches[i], 3)),
                         HourMin(Group(line, time_matches[i], 5), Group(line, time_matches[i], 7)))]

CandidatesLines(text) ==
    LET lines == SplitLines(text) IN
    Flatten([i \in 1..Len(lines) |-> LineCandidates(Strip(lines[i]))])

\* `dt < now` with dt = datetime(year, month, day), which has no time zone,
\* and now = datetime.now(jst), which has one: Python raises TypeError
NaiveAwareCompareRaises == TRUE

\* datetime(y, m, d) is before the instant now
BeforeNow(date, now) ==
    \/ ToOrdinal(date[1], date[2], date[3]) < ToOrdinal(now.year, now.month, now.day)
    \/ date = Today(now) /\ now.minute > 0

\* the try blocks of lines 277-282 (month and day) and 358-367 (day only):
\* the date of a candidate, <<>> when the block ends in `except: continue`
InferDate(c, now) ==
    LET month == IF c.month = 0 THEN now.month ELSE c.month
        first == <<now.year, month, c.day>>
        later == IF c.month # 0 THEN <<now.year + 1, month, c.day>>
                 ELSE IF month = 12 THEN <<now.year + 1, 1, c.day>>
                 ELSE <<now.year, month + 1, c.day>>
    IN IF ~ValidDate(first[1], first[2], first[3]) THEN <<>>
       ELSE IF NaiveAwareCompareRaises THEN <<>>
       ELSE IF ~BeforeNow(first, now) THEN first
       ELSE IF ValidDate(later[1], later[2], later[3]) THEN later
       ELSE <<>>

SameTriple(d, date_str, start_time, end_time) ==
    /\ Get(d, "date") = date_str
    /\ Get(d, "time") = start_time
    /\ Get(d, "end_time") = end_time

\* lines 286-295: append the span unless its triple is in new_dates
AppendSpan(new_dates, date_str, start_time, end_time, task_type) ==
    IF \E i \in 1..Len(new_dates) : SameTriple(new_dates[i], date_str, start_time, end_time)
    THEN new_dates
    ELSE Append(new_dates,
                IF task_type = <<"add_event">>
                THEN [date |-> date_str, time |-> start_time, end_time |-> end_time,
                      description |-> <<>>,
                      title |-> SynthTitle(date_str, start_time, end_time)]
                ELSE [date |-> date_str, time |-> start_time, end_time |-> end_time,
                      description |-> <<>>])

RECURSIVE AppendCandidates(_, _, _, _)
AppendCandidates(new_dates, cs, now, task_type) ==
    IF cs = <<>> THEN new_dates
    ELSE LET dt == InferDate(Head(cs), now) IN
         AppendCandidates(IF dt = <<>> THEN new_dates
                          ELSE AppendSpan(new_dates, StrfDate(dt[1], dt[2], dt[3]),
                                          Head(cs).start_time, Head(cs).end_time, task_type),
                          Tail(cs), now, task_type)

\* the matches of lines 271-482 in the order the code goes through them
AllCandidates(text) ==
    Candidates1(text) \o Candidates2(text) \o Candidates3(text) \o Candidates4(text)
        \o Candidates5(text) \o CandidatesLines(text)

(***************************************************************************)
(* Step 3: the entry made for 今日/本日 when nothing else was found, and   *)
(* the travel entries of _add_travel_time.                                 *)
(***************************************************************************)
\* ['移動', '移動あり', '移動時間', '移動必要']
travel_keywords ==
    {<<"idou">>, <<"idou", "a", "ri">>, <<"idou", "ji", "kan">>, <<"idou", "hitsu", "you">>}

\* str.split(): the maximal runs without white space
RECURSIVE Split(_)
Split(text) ==
    LET s == Strip(text) IN
    IF s = <<>> THEN <<>>
    ELSE IF \A i \in 1..Len(s) : s[i] \notin WhiteSpace THEN <<s>>
    ELSE LET i == CHOOSE i \in 1..Len(s) :
                     s[i] \in WhiteSpace /\ \A j \in 1..(i - 1) : s[j] \notin WhiteSpace
         IN <<SubSeq(s, 1, i - 1)>> \o Split(SubSeq(s, i + 1, Len(s)))

\* re.match(r'^\d{1,2}時$', part)
IsHourWord(part) ==
    /\ Len(part) \in {2, 3}
    /\ part[Len(part)] = "ji"
    /\ AllDigits(SubSeq(part, 1, Len(part) - 1))

\* lines 498-509
RECURSIVE JoinTitle(_, _)
JoinTitle(title_parts, title) ==
    IF title_parts = <<>> \/ Head(title_parts) \in travel_keywords THEN title
    ELSE LET part == Head(title_parts) IN
         JoinTitle(Tail(title_parts),
                   IF ~IsHourWord(part) /\ part \notin {<<"hon", "nichi">>, <<"kon", "nichi">>}
                   THEN (IF title # <<>> THEN title \o <<" ">> ELSE title) \o part
                   ELSE title)

\* lines 485-523, with the pattern (本日|今日)(\d{1,2})時
TodayFallback(new_dates, original_text, now) ==
    LET time_match == Search(<<Item({"hon", "kon"}, 1, 1), L("nichi"), D12, L("ji")>>,
                             original_text)
        hour == IntOf(Group(original_text, time_match, 3))
        title == JoinTitle(Split(original_text), <<>>)
    IN IF /\ Contains(<<"hon", "nichi">>, original_text)
             \/ Contains(<<"kon", "nichi">>, original_text)
          /\ new_dates = <<>>
          /\ time_match # NoMatch
       THEN <<[date |-> StrfDay(now, 0), time |-> HourStr(hour),
               end_time |-> HourStr(hour + 1),
               title |-> IF title = <<>> THEN <<"yo", "tei">> ELSE title,
               description |-> <<>>]>>
       ELSE new_dates

\* lines 590-631: <<>> when main_event lacks a key or strptime raises
_create_travel_events(main_event) ==
    IF ~({"date", "time", "end_time"} \subseteq DOMAIN main_event) THEN <<>>
    ELSE LET start_dt == StrpDateTime(Str(main_event.date), Str(main_event.time))
             end_dt == StrpDateTime(Str(main_event.date), Str(main_event.end_time))
         IN IF start_dt = ValueError \/ end_dt = ValueError THEN <<>>
            ELSE <<[date |-> main_event.date,
                    time |-> StrfHM(start_dt + MinutesPerDay - 60),
                    end_time |-> StrfHM(start_dt),
                    title |-> <<"idou", "ji", "kan", "(", "ou", "ro", ")">>,
                    description |-> <<"idou", "no", "ta", "me", "no", "ji", "kan">>],
                   [date |-> main_event.date,
                    time |-> StrfHM(end_dt),
                    end_time |-> StrfHM(end_dt + 60),
                    title |-> <<"idou", "ji", "kan", "(", "fuku", "ro", ")">>,
                    description |-> <<"idou", "no", "ta", "me", "no", "ji", "kan">>]>>

\* lines 566-578
RECURSIVE AppendTravel(_, _)
AppendTravel(new_dates, travel_events) ==
    IF travel_events = <<>> THEN new_dates
    ELSE LET travel_event == Head(travel_events) IN
         AppendTravel(IF \E i \in 1..Len(new_dates) :
                            SameTriple(new_dates[i], travel_event.date, travel_event.time,
                                       travel_event.end_time)
                      THEN new_dates
                      ELSE Append(new_dates, travel_event),
                      Tail(travel_events))

\* the variant of TravelLoop that returns the buffers without the entries
RECURSIVE TravelLoopBuffersOnly(_)
TravelLoopBuffersOnly(dates) ==
    IF dates = <<>> THEN <<>>
    ELSE LET new_dates == TravelLoopBuffersOnly(SubSeq(dates, 1, Len(dates) - 1))
             travel_events == _create_travel_events(dates[Len(dates)])
         IN IF new_dates = <<Raised>> \/ travel_events = <<>> THEN <<Raised>>
            ELSE AppendTravel(new_dates, travel_events)

\* lines 557-578: the output after the last entry of dates, from the output
\* after the entries before it; <<Raised>> when _create_travel_events raises
RECURSIVE TravelLoop(_)
TravelLoop(dates) ==
    IF dates = <<>> THEN <<>>
    ELSE LET new_dates == TravelLoop(SubSeq(dates, 1, Len(dates) - 1))
             date_info == dates[Len(dates)]
             travel_events == _create_travel_events(date_info)
         IN IF new_dates = <<Raised>> \/ travel_events = <<>> THEN <<Raised>>
            ELSE AppendTravel(Append(new_dates, date_info), travel_events)

\* the variant of _add_travel_time that does not look at the text
_add_travel_time_any_text(dates, original_text) == TravelLoop(dates)

\* lines 536-580: every travel keyword contains 移動
_add_travel_time(dates, original_text) ==
    IF ~Contains(<<"idou">>, original_text) THEN dates ELSE TravelLoop(dates)

\* lines 269-534: the list _supplement_times returns in parsed['dates'] from
\* the repaired list, <<Raised>> when it raises
MergeAndFinish(new_dates, original_text, now, task_type) ==
    LET merged == AppendCandidates(new_dates, AllCandidates(original_text), now, task_type)
        with_today == TodayFallback(merged, original_text, now)
    IN IF task_type = <<"add_event">> THEN _add_travel_time(with_today, original_text)
       ELSE with_today

(***************************************************************************)
(* AIService.extract_dates_and_times and the dispatch of handle_message.   *)
(* The reply of the upstream collaborator is either nothing json.loads     *)
(* accepts (or the request itself raises), an object without 'dates', or   *)
(* an object with a task_type (None: the key is absent) and a dates list.  *)
(***************************************************************************)
MaxGuess == 2

AddEvent == <<"add_event">>

AvailabilityCheck == <<"availability_check">>

Meeting == <<"kai", "gi">>

WeekMonday == StrfDate(2025, 7, 14)

GuessEntries ==
    {[date |-> Date1, time |-> HM(9, 0), end_time |-> HM(10, 0)],
     [date |-> WeekMonday, time |-> HM(10, 0), end_time |-> HM(11, 0), title |-> Meeting],
     [date |-> WeekMonday],
     [date |-> Date1, end_time |-> HM(11, 0)],
     [time |-> day_start, end_time |-> day_end],
     [date |-> WeekMonday, description |-> <<"rai", "shuu", "no">> \o Meeting],
     [date |-> WeekMonday, time |-> day_start, end_time |-> day_end],
     [date |-> Date1, time |-> <<"9", "ji">>],
     [date |-> WeekMonday, time |-> AllDayStart, end_time |-> day_end]}

\* ・7/10 9-10時 and ・7/11 9-10時 on two lines; 7/20 13:00-0:00; 来週の空き時間;
\* 今日10時 会議 移動; 16日11:30-14:00
Texts ==
    {<<"nakaguro", "7", "/", "1", "0", " ", "9", "-", "1", "0", "ji", "nl",
       "nakaguro", "7", "/", "1", "1", " ", "9", "-", "1", "0", "ji">>,
     <<"7", "/", "2", "0", " ", "1", "3", ":", "0", "0", "-", "0", ":", "0", "0">>,
     <<"rai", "shuu", "no", "aki", "ki", "ji", "kan">>,
     <<"kon", "nichi", "1", "0", "ji", " ">> \o Meeting \o <<" ", "idou">>,
     <<"1", "6", "nichi", "1", "1", ":", "3", "0", "-", "1", "4", ":", "0", "0">>,
     <<"kon", "nichi", "kara", "1", "shuu", "kan">>}

\* a Wednesday morning, a Monday morning, and the last minute of the last
\* Sunday of a year
Nows == {Now(2025, 7, 9, 630), Now(2025, 7, 7, 540), Now(2025, 12, 28, 1439)}

\* the minutes that may pass between datetime.now() of _get_jst_now_str
\* (line 24) and datetime.now() of _supplement_times (line 139), with the
\* request to the upstream collaborator in between
Elapsed == {0, 1}

\* the clock e minutes (less than a day) after now
ClockAfter(now, e) ==
    IF now.minute + e < MinutesPerDay THEN [now EXCEPT !.minute = @ + e]
    ELSE LET date == NextDay(<<now.year, now.month, now.day>>) IN
         Now(date[1], date[2], date[3], now.minute + e - MinutesPerDay)

UpstreamReplies ==
    {[kind |-> "unparsable", task_type |-> None, dates |-> <<>>]}
    \cup {[kind |-> "no_dates", task_type |-> t, dates |-> <<>>] :
            t \in {AddEvent, AvailabilityCheck}}
    \cup {[kind |-> "object", task_type |-> t, dates |-> ds] :
            t \in {None, AddEvent, AvailabilityCheck},
            ds \in SeqsUpTo(GuessEntries, MaxGuess)}

\* lines 106-116: without a title or description in the upstream entries the
\* task_type becomes availability_check
ForcedTaskType(task_type, dates) ==
    IF \E i \in 1..Len(dates) :
          Truthy(Get(dates[i], "title")) \/ Truthy(Get(dates[i], "description"))
    THEN task_type
    ELSE AvailabilityCheck

\* {"error": ...}
ErrorResult == [error |-> TRUE, has_dates |-> FALSE, task_type |-> None, dates |-> <<>>]

NoResult == [error |-> FALSE, has_dates |-> FALSE, task_type |-> None, dates |-> <<>>]

InitNorm ==
    /\ nz \in {[pc |-> "ask", text |-> t, now_jst |-> n, now |-> n, guess |-> NoResult,
                task_type |-> None, dates |-> <<>>, k |-> 1, new_dates |-> <<>>,
                allday_dates |-> {}, prev |-> <<>>, rule |-> "none",
                result |-> NoResult, reply |-> "none"] : t \in Texts, n \in Nows}
    /\ fs = Idle
    /\ av = Idle

\* extract_dates_and_times up to the call of _supplement_times: now_jst
\* (line 31) has gone into the prompt, the reply has come, _supplement_times
\* reads the clock again (line 139) and may return early (lines 143-145)
NzAsk ==
    /\ nz.pc = "ask"
    /\ \E reply \in UpstreamReplies, e \in Elapsed :
          nz' = IF reply.kind = "unparsable"
                THEN [nz EXCEPT !.pc = "done", !.guess = reply, !.result = ErrorResult]
                ELSE IF reply.kind = "no_dates"
                THEN [nz EXCEPT !.pc = "done", !.guess = reply,
                                !.now = ClockAfter(nz.now_jst, e),
                                !.result = [error |-> FALSE, has_dates |-> FALSE,
                                            task_type |-> reply.task_type, dates |-> <<>>]]
                ELSE [nz EXCEPT !.pc = "repair", !.guess = reply, !.dates = reply.dates,
                                !.now = ClockAfter(nz.now_jst, e),
                                !.task_type = ForcedTaskType(reply.task_type, reply.dates)]
    /\ UNCHANGED <<fs, av>>

\* one iteration of `for d in parsed['dates']`; an exception ends
\* extract_dates_and_times in its except branch (lines 120-121)
NzRepair ==
    /\ nz.pc = "repair"
    /\ nz.k <= Len(nz.dates)
    /\ \E r \in {RepairEntry(nz.dates[nz.k], nz.text, nz.now, nz.task_type, nz.new_dates,
                             nz.allday_dates)} :
          nz' = [nz EXCEPT !.pc = IF r.raised THEN "done" ELSE "repair",
                           !.k = @ + 1,
                           !.prev = nz.new_dates,
                           !.rule = r.rule,
                           !.new_dates = r.new_dates,
                           !.allday_dates = r.allday_dates,
                           !.result = IF r.raised THEN ErrorResult ELSE @]
    /\ UNCHANGED <<fs, av>>

\* lines 269-534 and the return of extract_dates_and_times
NzFinish ==
    /\ nz.pc = "repair"
    /\ nz.k > Len(nz.dates)
    /\ \E ds \in {MergeAndFinish(nz.new_dates, nz.text, nz.now, nz.task_type)} :
          nz' = [nz EXCEPT !.pc = "done",
                           !.result = IF ds = <<Raised>> THEN ErrorResult
                                      ELSE [error |-> FALSE, has_dates |-> TRUE,
                                            task_type |-> nz.task_type, dates |-> ds]]
    /\ UNCHANGED <<fs, av>>

\* handle_message lines 291-318 (none of Texts names a month, lines 277-289)
NzDispatch ==
    /\ nz.pc = "done"
    /\ nz' = [nz EXCEPT
                !.pc = "replied",
                !.reply = IF nz.result.error THEN "guidance"
                          ELSE IF nz.result.task_type = AvailabilityCheck THEN "availability_check"
                          ELSE IF nz.result.task_type \in {AddEvent, None}
                          THEN (IF nz.result.dates = <<>> THEN "not_recognized"
                                ELSE "multiple_events")
                          ELSE "guidance"]
    /\ UNCHANGED <<fs, av>>

NextNorm == NzAsk \/ NzRepair \/ NzFinish \/ NzDispatch

SpecNorm == InitNorm /\ [][NextNorm]_vars

(***************************************************************************)
(* Claims about the normalizer.                                            *)
(***************************************************************************)
\* extract_dates_and_times has returned a result with a dates list
Normalized == nz.pc \in {"done", "replied"} /\ ~nz.result.error /\ nz.result.has_dates

HasTitleOrDescription(d) == Truthy(Get(d, "title")) \/ Truthy(Get(d, "description"))

\* C4: after extract_dates_and_times the task classification is add_event
\* if and only if some entry of the returned list has a non-empty title or
\* description, and availability_check otherwise, whatever the upstream
\* task_type was.
C4_ClassifiedFromRepairedList ==
    Normalized =>
        /\ nz.result.task_type \in {AddEvent, AvailabilityCheck}
        /\ nz.result.task_type = AddEvent
              <=> \E i \in 1..Len(nz.result.dates) : HasTitleOrDescription(nz.result.dates[i])

\* C5: every entry of the list _supplement_times returns has a start time,
\* an end time and a date that is a valid civil date.
C5_EntriesComplete ==
    Normalized =>
        \A i \in 1..Len(nz.result.dates) :
            /\ Truthy(Get(nz.result.dates[i], "time"))
            /\ Truthy(Get(nz.result.dates[i], "end_time"))
            /\ StrpDate(Get(nz.result.dates[i], "date")) # <<>>

\* the candidate is a span of a date that exists, this year or the next
\* (this month or the next for a day without month)
SpanOfCivilDate(c, now) ==
    IF c.month # 0
    THEN ValidDate(now.year, c.month, c.day) \/ ValidDate(now.year + 1, c.month, c.day)
    ELSE c.day \in 1..31

\* the list holds an entry for the span: its month (if the span names one),
\* day, start and end
HoldsSpan(dates, c) ==
    \E i \in 1..Len(dates) :
        LET date == StrpDate(Get(dates[i], "date")) IN
        /\ date # <<>>
        /\ date[3] = c.day
        /\ c.month # 0 => date[2] = c.month
        /\ Get(dates[i], "time") = c.start_time
        /\ Get(dates[i], "end_time") = c.end_time

AllSpansHeld(dates, text, now) ==
    LET cs == AllCandidates(text) IN
    \A i \in 1..Len(cs) : SpanOfCivilDate(cs[i], now) => HoldsSpan(dates, cs[i])

\* C6: when the upstream guess is absent or malformed (nothing parsable, or
\* an object without a dates list) the failure is not propagated: the
\* result is the list of the spans found in the raw text.
C6_GuessFailureRecovered ==
    nz.pc \in {"done", "replied"} /\ nz.guess.kind \in {"unparsable", "no_dates"} =>
        /\ ~nz.result.error
        /\ nz.result.has_dates
        /\ AllSpansHeld(nz.result.dates, nz.text, nz.now)

\* C7: every date and time-range span of the raw text that matches one of
\* the pattern families has an entry with its triple in the list that
\* _supplement_times returns.
C7_SpansAppended ==
    Normalized => AllSpansHeld(nz.result.dates, nz.text, nz.now)

\* the entry the last repair step was about
LastEntry == nz.dates[nz.k - 1]

\* the last repair step was about an entry without a time whose phrase has 来週
NextWeekCase ==
    /\ nz.rule # "none"
    /\ ~Truthy(Get(LastEntry, "time"))
    /\ Found(NextWeekCue, Phrase(LastEntry, nz.text))

\* Monday to Sunday of the week after now: the first Monday strictly after
\* today and the six days after it
FollowingWeek ==
    LET n == CHOOSE n \in 1..7 : WeekdayOf(AddDays(Today(nz.now), n)) = 0 IN
    [i \in 1..7 |-> StrfDay(nz.now, n + i - 1)]

HasDate(dates, date_str) == \E j \in 1..Len(dates) : Get(dates[j], "date") = date_str

IsAllDayEntry(d) == Get(d, "time") = AllDayStart /\ Get(d, "end_time") = day_end

\* C11: the list _supplement_times returns holds at most one all-day entry
\* (00:00-23:59) for each date.
C11_OneAllDayPerDate ==
    Normalized =>
        \A i, j \in 1..Len(nz.result.dates) :
            /\ i < j
            /\ IsAllDayEntry(nz.result.dates[i])
            /\ IsAllDayEntry(nz.result.dates[j])
            => Get(nz.result.dates[i], "date") # Get(nz.result.dates[j], "date")

(***************************************************************************)
(* Specification SpecTwice: _supplement_times as a function of the parsed  *)
(* reply, the raw text and the current moment, applied to an upstream list *)
(* and then to its own output.                                             *)
(***************************************************************************)
\* lines 149-268: the whole loop; <<Raised>> when an iteration raises
RECURSIVE RepairLoop(_, _, _, _, _, _)
RepairLoop(dates, original_text, now, task_type, new_dates, allday_dates) ==
    IF dates = <<>> THEN new_dates
    ELSE LET r == RepairEntry(Head(dates), original_text, now, task_type, new_dates,
                              allday_dates)
         IN IF r.raised THEN <<Raised>>
            ELSE RepairLoop(Tail(dates), original_text, now, task_type, r.new_dates,
                            r.allday_dates)

\* lines 135-534: parsed['dates'] of the value returned for a parsed reply
\* with a dates list, <<Raised>> when the function raises
_supplement_times(task_type, dates, original_text, now) ==
    LET new_dates == RepairLoop(dates, original_text, now, task_type, <<>>, {}) IN
    IF new_dates = <<Raised>> THEN <<Raised>>
    ELSE MergeAndFinish(new_dates, original_text, now, task_type)

InitTwice ==
    /\ nz \in {[pc |-> "twice", text |-> t, now |-> n, task_type |-> tt, input |-> ds,
                outs |-> <<>>] :
                  t \in Texts, n \in Nows, tt \in {AddEvent, AvailabilityCheck},
                  ds \in SeqsUpTo(GuessEntries, MaxGuess)}
    /\ fs = Idle
    /\ av = Idle

\* one call of _supplement_times: on the upstream list, then on its own output
Supplement ==
    /\ nz.pc = "twice"
    /\ Len(nz.outs) < 2
    /\ nz.outs # <<>> => nz.outs[1] # <<Raised>>
    /\ nz' = [nz EXCEPT !.outs = Append(@, _supplement_times(nz.task_type,
                                                IF nz.outs = <<>> THEN nz.input
                                                ELSE nz.outs[1],
                                                nz.text, nz.now))]
    /\ UNCHANGED <<fs, av>>

NextTwice == Supplement

SpecTwice == InitTwice /\ [][NextTwice]_vars

\* date, start time and end time of each entry of a list
Triples(dates) ==
    [i \in 1..Len(dates) |->
        <<Get(dates[i], "date"), Get(dates[i], "time"), Get(dates[i], "end_time")>>]

\* a is b with some elements left out
RECURSIVE IsSubsequence(_, _)
IsSubsequence(a, b) ==
    IF a = <<>> THEN TRUE
    ELSE IF b = <<>> THEN FALSE
    ELSE IF Head(a) = Head(b) THEN IsSubsequence(Tail(a), Tail(b))
    ELSE IsSubsequence(a, Tail(b))

RanTwice == nz.pc = "twice" /\ Len(nz.outs) = 2

\* the second run has travel buffers to add
TravelApplies == nz.task_type = AddEvent /\ Contains(<<"idou">>, nz.text)

\* C12: a second run of _supplement_times on its own output, with the same
\* raw text and current moment, does not raise and keeps every entry, in
\* order, with its date, start time and end time; it adds entries only as
\* travel buffers.
C12_SecondRunKeepsEntries ==
    RanTwice =>
        /\ nz.outs[2] # <<Raised>>
        /\ IsSubsequence(Triples(nz.outs[1]), Triples(nz.outs[2]))
        /\ ~TravelApplies => Triples(nz.outs[2]) = Triples(nz.outs[1])

\* C12 witness: the first run repaired an entry without a start time, and
\* the second run has returned the same triples.
C12_Witness ==
    /\ RanTwice
    /\ \E i \in 1..Len(nz.input) : ~Truthy(Get(nz.input[i], "time"))
    /\ nz.outs[1] # <<>>
    /\ Triples(nz.outs[1]) # Triples(nz.input)
    /\ Triples(nz.outs[2]) = Triples(nz.outs[1])

\* the upstream entry has a start time and an end time
HasBothTimes(d) == Get(d, "time") \notin {None, <<>>} /\ Get(d, "end_time") \notin {None, <<>>}

\* C13: an upstream entry that has both its start and its end time is
\* appended to the working set as it is (date, start, end and title
\* unchanged), whatever cues the raw text or its description holds, and is
\* in the returned list in that form.
C13_CompleteEntryUntouched ==
    /\ nz.rule # "none" /\ HasBothTimes(LastEntry) => nz.new_dates = Append(nz.prev, LastEntry)
    /\ Normalized =>
          \A i \in 1..Len(nz.guess.dates) :
              HasBothTimes(nz.guess.dates[i]) =>
                  \E j \in 1..Len(nz.result.dates) : nz.result.dates[j] = nz.guess.dates[i]

\* C13 witness: an entry with both times and another date has been passed
\* through while the raw text says 今日10時, and the list has been returned.
C13_Witness ==
    /\ Normalized
    /\ nz.rule = "pass"
    /\ HasBothTimes(LastEntry)
    /\ Contains(<<"kon", "nichi">>, nz.text)
    /\ Get(LastEntry, "date") # StrfDay(nz.now, 0)
    /\ \E j \in 1..Len(nz.result.dates) : nz.result.dates[j] = LastEntry

\* the hour H of 本日H時 in the phrase, else of 今日H時, -1 without either
ForcedHour(phrase) ==
    LET hon == Search(<<L("hon"), L("nichi"), D12, L("ji")>>, phrase)
        kon == Search(<<L("kon"), L("nichi"), D12, L("ji")>>, phrase)
    IN IF hon # NoMatch THEN IntOf(Group(phrase, hon, 3))
       ELSE IF kon # NoMatch THEN IntOf(Group(phrase, kon, 3))
       ELSE -1

\* the last repair step kept an entry that lacked a time and whose phrase
\* has 今日H時 or 本日H時 (and not 今日から1週間, which resets both times)
TodayHourCase ==
    /\ nz.rule = "repair"
    /\ ~HasBothTimes(LastEntry)
    /\ ForcedHour(Phrase(LastEntry, nz.text)) >= 0
    /\ ~Contains(<<"kon", "nichi", "kara", "1", "shuu", "kan">>, Phrase(LastEntry, nz.text))

SpanHolders(dates, c) ==
    {i \in 1..Len(dates) :
        LET date == StrpDate(Get(dates[i], "date")) IN
        /\ date # <<>>
        /\ date[3] = c.day
        /\ c.month # 0 => date[2] = c.month
        /\ Get(dates[i], "time") = c.start_time
        /\ Get(dates[i], "end_time") = c.end_time}

InferredYearDate(c, now) ==
    IF BeforeNow(<<now.year, c.month, c.day>>, now)
    THEN StrfDate(now.year + 1, c.month, c.day)
    ELSE StrfDate(now.year, c.month, c.day)

\* C20: a month+day span of the raw text whose day exists in the current
\* year has an entry dated in the current year, or in the next year when
\* that day of the current year is before the current moment.
C20_YearInferred ==
    Normalized =>
        LET cs == AllCandidates(nz.text) IN
        \A i \in 1..Len(cs) :
            cs[i].month # 0 /\ ValidDate(nz.now.year, cs[i].month, cs[i].day)
                /\ ValidDate(nz.now.year + 1, cs[i].month, cs[i].day) =>
                \E j \in 1..Len(nz.result.dates) :
                    SameTriple(nz.result.dates[j], InferredYearDate(cs[i], nz.now),
                               cs[i].start_time, cs[i].end_time)

\* _supplement_times has gone through all its steps (no early return, no
\* exception in the repair loop)
Finished ==
    /\ nz.pc \in {"done", "replied"}
    /\ nz.guess.kind = "object"
    /\ nz.rule # "raise"

\* the list that lines 527-531 hand to _add_travel_time
PreTravel ==
    TodayFallback(AppendCandidates(nz.new_dates, AllCandidates(nz.text), nz.now, nz.task_type),
                  nz.text, nz.now)

\* the list has an entry of that date over the minutes [from, to) of the day
HasInterval(dates, date, from, to) ==
    \E j \in 1..Len(dates) :
        /\ Get(dates[j], "date") = date
        /\ StrpHM(Str(Get(dates[j], "time"))) = from
        /\ StrpHM(Str(Get(dates[j], "end_time"))) = to

\* C16: with the classification add_event and a travel keyword in the raw
\* text, _add_travel_time keeps every input entry, and for each one its
\* output has on the entry's date the outbound buffer [start-60min, start)
\* and the return buffer [end, end+60min).
C16_BuffersAroundEntries ==
    Finished /\ TravelApplies =>
        /\ ~nz.result.error
        /\ IsSubsequence(PreTravel, nz.result.dates)
        /\ \A i \in 1..Len(PreTravel) :
              LET e == PreTravel[i]
                  start == StrpHM(Str(Get(e, "time")))
                  end == StrpHM(Str(Get(e, "end_time")))
              IN /\ HasInterval(nz.result.dates, Get(e, "date"), start - 60, start)
                 /\ HasInterval(nz.result.dates, Get(e, "date"), end, end + 60)

\* C17: for an availability_check request, or a raw text without a travel
\* keyword, the list is returned as it was handed to the travel step,
\* without any buffer entry.
C17_NoBuffersOtherwise ==
    Finished /\ ~TravelApplies =>
        /\ ~nz.result.error
        /\ nz.result.dates = PreTravel

\* C17 witness: an add_event request whose text has no travel keyword has
\* returned its entries, and so has an availability_check whose text has one.
C17_Witness ==
    /\ Finished
    /\ nz.result.dates # <<>>
    /\ \/ nz.task_type = AddEvent /\ ~Contains(<<"idou">>, nz.text)
       \/ nz.task_type = AvailabilityCheck /\ Contains(<<"idou">>, nz.text)

(***************************************************************************)
(* Specification SpecFormat: format_free_slots_response_by_frame applied   *)
(* to a list of frames as _handle_availability_check builds them: the date *)
(* is the string of the entry, which strptime has accepted with or without *)
(* zero padding, the free slots are what find_free_slots_for_day formats   *)
(* with '%H:%M', in the order of the sweep.                                *)
(***************************************************************************)
MaxFrames == 2

InitFormat ==
    /\ av \in {[pc |-> "format", free_slots_by_frame |-> f, response |-> NoFreeTime] :
                 f \in SeqsUpTo(
                     {Frame(date, day_start, day_end, slots) :
                         date \in {StrfDate(2025, 7, 9), Date1, <<"2", "0", "2", "5", "-", "7", "-", "9">>},
                         slots \in {<<>>,
                                    <<FreeSlot(540, 600)>>,
                                    <<FreeSlot(660, 1080)>>,
                                    <<FreeSlot(540, 600), FreeSlot(660, 1080)>>}},
                     MaxFrames)}
    /\ fs = Idle
    /\ nz = Idle

FormatResponse ==
    /\ av.pc = "format"
    /\ av' = [av EXCEPT !.pc = "formatted",
                        !.response = format_free_slots_response_by_frame(av.free_slots_by_frame)]
    /\ UNCHANGED <<fs, nz>>

NextFormat == FormatResponse

SpecFormat == InitFormat /\ [][NextFormat]_vars

Formatted == av.pc = "formatted"

\* C18: the response reports each date at most once and each (start, end)
\* interval of a date at most once, with the dates ascending, the intervals
\* of a date ascending by start time, and no date without intervals.
C18_DatesAndSlotsOnceInOrder ==
    Formatted =>
        LET days == av.response.days IN
        /\ \A i, j \in 1..Len(days) : i < j =>
              ToOrdinal(StrpDate(days[i].date)[1],
                        days[i].header[1], days[i].header[2])
                  < ToOrdinal(StrpDate(days[j].date)[1], days[j].header[1], days[j].header[2])
        /\ \A i \in 1..Len(days) :
              /\ days[i].slots # <<>>
              /\ \A m, n \in 1..Len(days[i].slots) : m < n =>
                    /\ days[i].slots[m] # days[i].slots[n]
                    /\ StrpHM(days[i].slots[m][1]) <= StrpHM(days[i].slots[n][1])

\* the frames have no free slot at all
AllFramesEmpty ==
    \A k \in 1..Len(av.free_slots_by_frame) : av.free_slots_by_frame[k].free_slots = <<>>

\* C19: for an empty frame list, or frames that are all without free
\* slots, the result is the 'no free time' message; the 'free time follows'
\* header always has a date with a slot under it.
C19_NoFreeTimeIsDistinct ==
    Formatted =>
        /\ AllFramesEmpty => av.response = NoFreeTime
        /\ av.response.kind = "free_time" =>
              /\ av.response.days # <<>>
              /\ \A i \in 1..Len(av.response.days) : av.response.days[i].slots # <<>>
        /\ av.response.kind \in {"free_time", "no_free_time"}

\* C19 witness: a list of frames, none with a free slot, has been answered
\* with the 'no free time' message.
C19_Witness ==
    /\ Formatted
    /\ av.free_slots_by_frame # <<>>
    /\ AllFramesEmpty
    /\ av.response = NoFreeTime

\* the span has an end time that is numerically before its start time
EndsBeforeStart(c) == StrpHM(c.end_time) < StrpHM(c.start_time)

\* C21: a span of the raw text whose end time is before its start time
\* (13:00-0:00) has an entry on the date of the span with the start and the
\* zero-padded end as written and without end_date; when no entry has a
\* title or description the request stays an availability query.
C21_EndBeforeStartKept ==
    Normalized =>
        LET cs == AllCandidates(nz.text) IN
        \A i \in 1..Len(cs) :
            EndsBeforeStart(cs[i]) /\ SpanOfCivilDate(cs[i], nz.now) =>
                /\ \E j \in SpanHolders(nz.result.dates, cs[i]) :
                      "end_date" \notin DOMAIN nz.result.dates[j]
                /\ (\A j \in 1..Len(nz.result.dates) :
                        ~HasTitleOrDescription(nz.result.dates[j]))
                      => nz.result.task_type = AvailabilityCheck

\* the entry lacks a date, a start time or an end time
Incomplete(d) ==
    \/ Get(d, "date") \in {None, <<>>}
    \/ Get(d, "time") \in {None, <<>>}
    \/ Get(d, "end_time") \in {None, <<>>}

\* C22: when no entry of the request is complete (none has a date, a start
\* and an end), among them the empty request, the answer of
\* _handle_availability_check is the 'could not recognize any date/time'
\* message, not the 'no free time' message, and nothing is raised.
C22_NothingUsableNotRecognized ==
    av.pc = "done" /\ (\A k \in 1..Len(av.dates_info) : Incomplete(av.dates_info[k])) =>
        av.response = NotRecognized

\* the last repair step kept an entry that the 今日 or 本日 rule has dated
DatedToday ==
    /\ nz.rule = "repair"
    /\ ~HasBothTimes(LastEntry)
    /\ \/ Contains(<<"kon", "nichi">>, Phrase(LastEntry, nz.text))
       \/ Contains(<<"hon", "nichi">>, Phrase(LastEntry, nz.text))
    /\ ~Contains(<<"rai", "shuu">>, Phrase(LastEntry, nz.text))

\* C23: the current moment of a request is one value: the moment the date
\* decisions of _supplement_times use is the moment that was given to the
\* upstream guess, so 今日 is the day of that moment also when the wall
\* clock crosses midnight during the request.
C23_OneMomentPerRequest ==
    /\ nz.pc \in {"repair", "done", "replied"} => nz.now = nz.now_jst
    /\ DatedToday =>
          Get(nz.new_dates[Len(nz.new_dates)], "date") = StrfDay(nz.now_jst, 0)

\* the last repair step kept an entry whose start the 今日 or 本日 rule
\* has set or looked at
TodayTouched ==
    /\ nz.rule = "repair"
    /\ ~HasBothTimes(LastEntry)
    /\ \/ Contains(<<"kon", "nichi">>, Phrase(LastEntry, nz.text))
       \/ Contains(<<"hon", "nichi">>, Phrase(LastEntry, nz.text))

\* the phrase of the last entry has 今日から1週間
WeekFromTodayPhrase ==
    Contains(<<"kon", "nichi", "kara", "1", "shuu", "kan">>, Phrase(LastEntry, nz.text))

\* the end time of the entry is the time of day one hour after its start
EndsOneHourAfterStart(d) ==
    /\ StrpHM(Str(Get(d, "time"))) # ValueError
    /\ Get(d, "end_time") = StrfHM(StrpHM(Str(Get(d, "time"))) + 60)

\* C24 as stated: an entry whose start was touched by the 今日/本日 cue has
\* the end time start + 1 hour when its repair finishes, whatever rule is
\* evaluated after the 今日/本日 branch.
C24_EndAlwaysOneHourAfterStart ==
    TodayTouched => EndsOneHourAfterStart(nz.new_dates[Len(nz.new_dates)])

\* C24 amended: an entry whose start was touched by the 今日/本日 cue has the
\* end time start + 1 hour (as a time of day) when its repair finishes,
\* unless its phrase has 今日から1週間: that later rule resets it to
\* 00:00-23:59 with an end_date six days after today.
C24_EndOneHourUnlessWeekFromToday ==
    TodayTouched =>
        LET d == nz.new_dates[Len(nz.new_dates)] IN
        IF WeekFromTodayPhrase
        THEN /\ d.time = AllDayStart
             /\ d.end_time = day_end
             /\ d.date = StrfDay(nz.now, 0)
             /\ d.end_date = StrfDay(nz.now, 6)
        ELSE EndsOneHourAfterStart(d)

\* C24 witness: both cases have happened: an entry with an upstream start
\* that the 今日 rule has replaced ends one hour after the new start, or an
\* entry of a 今日から1週間 phrase has come out as 00:00-23:59.
C24_Witness ==
    /\ TodayTouched
    /\ \/ /\ ~WeekFromTodayPhrase
          /\ Truthy(Get(LastEntry, "time"))
          /\ Get(LastEntry, "time") # nz.new_dates[Len(nz.new_dates)].time
       \/ /\ WeekFromTodayPhrase
          /\ nz.new_dates[Len(nz.new_dates)].end_time = day_end

(***************************************************************************)
(* Specification SpecConfirm: the messages of one authenticated user to    *)
(* LineBotHandler.handle_message that end in _handle_multiple_events or in *)
(* the answer to a pending confirmation.  The persistence layer keeps at   *)
(* most one pending record per user (save, get, delete); the calendar is   *)
(* the list of the events of the one day all entries are on.  "hai" is     *)
(* はい, "tsui" "ka" is 追加, "iie" is いいえ.                             *)
(***************************************************************************)
MaxEvents == 2

MaxMessages == 2

\* the variant of Affirmative that also takes YES and a new request as a yes
AffirmativeButNo ==
    {<<"ha", "i">>, <<"tsui", "ka">>, <<"O", "K">>, <<"Y", "e", "s">>, <<"y", "e", "s">>,
     <<"Y", "E", "S">>, <<"kai", "gi">>}

\* line 110: the replies that confirm
Affirmative ==
    {<<"ha", "i">>, <<"tsui", "ka">>, <<"O", "K">>, <<"Y", "e", "s">>, <<"y", "e", "s">>}

\* the texts the user sends
Messages == {<<"ha", "i">>, <<"O", "K", " ">>, <<"i", "i", "e">>, <<"Y", "E", "S">>, Meeting}

\* the entries of a creation request: a meeting 10:00-11:00, a lunch
\* 11:00-12:00 without end time, an entry without start time
RequestEntries ==
    {[date |-> Date1, time |-> HM(10, 0), end_time |-> HM(11, 0), title |-> Meeting],
     [date |-> Date1, time |-> HM(11, 0), title |-> <<"l", "u", "n", "c", "h">>],
     [date |-> Date1, title |-> <<"m", "e", "m", "o">>]}

\* the lists extract_dates_and_times may hand over: entries that differ
\* from each other, and the meeting with its two travel buffers
Requests ==
    {q \in SeqsUpTo(RequestEntries, MaxEvents) :
        \A i, j \in 1..Len(q) : i # j => q[i] # q[j]}
    \cup {TravelLoop(<<[date |-> Date1, time |-> HM(10, 0), end_time |-> HM(11, 0),
                        title |-> Meeting]>>)}

\* what the user's calendar holds on that day before the first message
ExistingCalendars ==
    {<<>>,
     <<TimedEvent(<<"z">>, 0, 690, 0, 720, JSTOffset)>>,
     <<TimedEvent(<<"z">>, 0, 630, 0, 645, JSTOffset)>>}

\* lines 341-342: `if not date_str or not time_str: continue`
HasDateAndTime(date_info) == Truthy(Get(date_info, "date")) /\ Truthy(Get(date_info, "time"))

\* lines 345-349 and 413-417: the end time, one hour after the start when
\* it is missing or equal to the start
EndTimeStr(date_info) ==
    IF ~Truthy(Get(date_info, "end_time")) \/ Get(date_info, "end_time") = Get(date_info, "time")
    THEN StrfHM(StrpHM(date_info.time) + 60)
    ELSE date_info.end_time

\* lines 419-427: the record of an entry in the pending list, its datetimes
\* as minutes of the day
PendingEvent(date_info) ==
    [title |-> IF "title" \in DOMAIN date_info THEN date_info.title ELSE <<"yo", "tei">>,
     start_datetime |-> StrpHM(date_info.time),
     end_datetime |-> StrpHM(EndTimeStr(date_info)),
     description |-> IF "description" \in DOMAIN date_info THEN date_info.description
                     ELSE <<>>]

\* lines 401-427: all_events, one record for every entry of the request
\* that has a date and a start time
AllEvents(dates) ==
    LET usable == SelectSeq(dates, HasDateAndTime) IN
    [i \in 1..Len(usable) |-> PendingEvent(usable[i])]

\* calendar_service.add_event(..., force_add=True): the calendar after the
\* insert, unchanged when the backend fails
add_event(calendar, event_info, backend_ok) ==
    IF backend_ok
    THEN Append(calendar, TimedEvent(event_info.title, 0, event_info.start_datetime,
                                     0, event_info.end_datetime, JSTOffset))
    ELSE calendar

\* lines 331-442, from entry i on: the calendar, the events inserted, and
\* the pending list when an entry has met an event of the calendar
RECURSIVE MultipleEventsLoop(_, _, _, _, _)
MultipleEventsLoop(dates, i, calendar, fails, added_events) ==
    IF i > Len(dates)
    THEN [calendar |-> calendar, added_events |-> added_events, saved |-> FALSE,
          all_events |-> <<>>,
          reply |-> IF added_events # <<>> THEN "added" ELSE "not_added"]
    ELSE IF ~HasDateAndTime(dates[i])
    THEN MultipleEventsLoop(dates, i + 1, calendar, fails, added_events)
    ELSE LET event_info == PendingEvent(dates[i])
             events == get_events_for_time_range(TRUE, calendar, event_info.start_datetime,
                                                 event_info.end_datetime)
         IN IF events # <<>>
            THEN [calendar |-> calendar, added_events |-> added_events, saved |-> TRUE,
                  all_events |-> AllEvents(dates), reply |-> "confirm"]
            ELSE MultipleEventsLoop(dates, i + 1,
                                    add_event(calendar, event_info, i \notin fails), fails,
                                    IF i \in fails THEN added_events
                                    ELSE Append(added_events, event_info))

\* handle_message lines 308-318 for task_type add_event
_handle_multiple_events(dates, calendar, fails) ==
    IF dates = <<>>
    THEN [calendar |-> calendar, added_events |-> <<>>, saved |-> FALSE,
          all_events |-> <<>>, reply |-> "not_recognized"]
    ELSE MultipleEventsLoop(dates, 1, calendar, fails, <<>>)

\* lines 120-176: every event of the pending list is inserted with
\* force_add; a failure of one does not stop the others
RECURSIVE ConfirmLoop(_, _, _, _, _)
ConfirmLoop(events_data, i, calendar, fails, added_events) ==
    IF i > Len(events_data)
    THEN [calendar |-> calendar, added_events |-> added_events,
          reply |-> IF added_events # <<>> THEN "added" ELSE "not_added"]
    ELSE ConfirmLoop(events_data, i + 1,
                     add_event(calendar, events_data[i], i \notin fails), fails,
                     IF i \in fails THEN added_events
                     ELSE Append(added_events, events_data[i]))

InitConfirm ==
    /\ fs \in {[pc |-> "chat", n |-> 0, calendar |-> c, pending |-> <<>>,
                user_message |-> <<>>, reply |-> "none", requested |-> FALSE,
                inserted |-> <<>>] : c \in ExistingCalendars}
    /\ av = Idle
    /\ nz = Idle

\* a message while no record is pending (lines 111-112 and 259-260 find
\* nothing): the text goes to extract_dates_and_times, which classifies it
\* as add_event with some list of entries
Request ==
    /\ fs.pc = "chat"
    /\ fs.n < MaxMessages
    /\ fs.pending = <<>>
    /\ \E user_message \in Messages, dates \in Requests, fails \in SUBSET (1..MaxEvents) :
       \E r \in {_handle_multiple_events(dates, fs.calendar, fails)} :
          fs' = [fs EXCEPT !.n = @ + 1,
                           !.calendar = r.calendar,
                           !.pending = IF r.saved THEN <<r.all_events>> ELSE <<>>,
                           !.user_message = user_message,
                           !.reply = r.reply,
                           !.requested = TRUE,
                           !.inserted = r.added_events]
    /\ UNCHANGED <<av, nz>>

\* lines 110-176: an affirmative reply while a record is pending
Confirm ==
    /\ fs.pc = "chat"
    /\ fs.n < MaxMessages
    /\ fs.pending # <<>>
    /\ \E user_message \in Messages, fails \in SUBSET (1..MaxEvents) :
       \E r \in {ConfirmLoop(fs.pending[1], 1, fs.calendar, fails, <<>>)} :
          /\ Strip(user_message) \in Affirmative
          /\ fs' = [fs EXCEPT !.n = @ + 1,
                              !.calendar = r.calendar,
                              !.pending = <<>>,
                              !.user_message = user_message,
                              !.reply = r.reply,
                              !.requested = FALSE,
                              !.inserted = @ \o r.added_events]
    /\ UNCHANGED <<av, nz>>

\* lines 257-262: any other message while a record is pending
Cancel ==
    /\ fs.pc = "chat"
    /\ fs.n < MaxMessages
    /\ fs.pending # <<>>
    /\ \E user_message \in Messages :
          /\ Strip(user_message) \notin Affirmative
          /\ fs' = [fs EXCEPT !.n = @ + 1,
                              !.pending = <<>>,
                              !.user_message = user_message,
                              !.reply = "cancelled",
                              !.requested = FALSE]
    /\ UNCHANGED <<av, nz>>

NextConfirm == Request \/ Confirm \/ Cancel

SpecConfirm == InitConfirm /\ [][NextConfirm]_vars

\* C25: over a creation request and the affirmative reply that follows it,
\* each requested event (travel buffers included) is inserted into the
\* calendar at most once.
C25_EachEventInsertedOnce ==
    fs.pc = "chat" =>
        \A i, j \in 1..Len(fs.inserted) : i # j => fs.inserted[i] # fs.inserted[j]

\* b is a with some elements added at its end, all of them from events
ExtendsBy(a, b, events) ==
    /\ Len(b) >= Len(a)
    /\ SubSeq(b, 1, Len(a)) = a
    /\ \A k \in (Len(a) + 1)..Len(b) :
          \E m \in 1..Len(events) :
              b[k] = TimedEvent(events[m].title, 0, events[m].start_datetime,
                                0, events[m].end_datetime, JSTOffset)

\* the message is one of はい, 追加, OK, Yes, yes after strip()
SaysYes(user_message) ==
    \E w \in {<<"ha", "i">>, <<"tsui", "ka">>, <<"O", "K">>, <<"Y", "e", "s">>,
              <<"y", "e", "s">>} : Strip(user_message) = w

\* C26: while a record is pending, a message that is not affirmative
\* deletes the record, inserts nothing, is answered with the cancellation
\* message and is not processed as a request; an affirmative one inserts
\* only events of the record and deletes it.
C26_OnlyYesInsertsPending ==
    [][fs.pc = "chat" /\ fs.pending # <<>> =>
          /\ fs'.pending = <<>>
          /\ ~fs'.requested
          /\ IF SaysYes(fs'.user_message)
             THEN ExtendsBy(fs.calendar, fs'.calendar, fs.pending[1])
             ELSE fs'.calendar = fs.calendar /\ fs'.reply = "cancelled"]_vars

\* C26 witness: a pending confirmation has been cancelled by a message that
\* is no yes, with the calendar as the request left it.
C26_Witness ==
    /\ fs.pc = "chat"
    /\ fs.reply = "cancelled"
    /\ fs.pending = <<>>
    /\ ~SaysYes(fs.user_message)
    /\ fs.n = 2

(***************************************************************************)
(* Specification SpecTravel: _add_travel_time applied to a list of         *)
(* entries that have a date, a start and an end.                           *)
(***************************************************************************)
MaxPrimary == 2

\* a meeting, the hour after it, an entry that starts before 01:00, one
\* that ends after 23:00
TravelEntries ==
    {[date |-> Date1, time |-> HM(10, 0), end_time |-> HM(11, 0), title |-> Meeting],
     [date |-> Date1, time |-> HM(11, 0), end_time |-> HM(12, 0), title |-> Meeting],
     [date |-> Date1, time |-> HM(0, 30), end_time |-> HM(1, 30), title |-> Meeting],
     [date |-> Date1, time |-> HM(22, 30), end_time |-> HM(23, 30), title |-> Meeting]}

InitTravel ==
    /\ nz \in {[pc |-> "travel", dates |-> ds, original_text |-> t, new_dates |-> <<>>] :
                 ds \in SeqsUpTo(TravelEntries, MaxPrimary),
                 t \in {Meeting \o <<" ", "idou">>, Meeting \o <<" ", "idou", "a", "ri">>,
                        Meeting}}
    /\ fs = Idle
    /\ av = Idle

AddTravelTime ==
    /\ nz.pc = "travel"
    /\ nz' = [nz EXCEPT !.pc = "travelled",
                        !.new_dates = _add_travel_time(nz.dates, nz.original_text)]
    /\ UNCHANGED <<fs, av>>

NextTravel == AddTravelTime

SpecTravel == InitTravel /\ [][NextTravel]_vars

\* the entry is one that _create_travel_events has made
IsBuffer(d) ==
    Get(d, "title") \in {<<"idou", "ji", "kan", "(", "ou", "ro", ")">>,
                         <<"idou", "ji", "kan", "(", "fuku", "ro", ")">>}

\* C27: in the list _add_travel_time returns no travel buffer has the
\* (date, start, end) triple of another entry, be it a buffer or a primary
\* entry that comes later in the input.
C27_BufferTripleUnique ==
    nz.pc = "travelled" =>
        \A i, j \in 1..Len(nz.new_dates) :
            i # j /\ IsBuffer(nz.new_dates[i]) =>
                ~SameTriple(nz.new_dates[j], nz.new_dates[i].date, nz.new_dates[i].time,
                            nz.new_dates[i].end_time)

\* C28: every travel buffer starts before it ends and lasts 60 minutes on
\* the date it is labelled with, also next to a primary entry that starts
\* before 01:00 or ends after 23:00.
C28_BufferIsOneHourOfItsDate ==
    nz.pc = "travelled" =>
        \A i \in 1..Len(nz.new_dates) :
            IsBuffer(nz.new_dates[i]) =>
                /\ StrpDate(nz.new_dates[i].date) # <<>>
                /\ StrpHM(nz.new_dates[i].time) < StrpHM(nz.new_dates[i].end_time)
                /\ StrpHM(nz.new_dates[i].end_time) - StrpHM(nz.new_dates[i].time) = 60

\* C29: every free interval reported for a frame lies inside the requested
\* [start, end] cut to the day window 08:00-23:59, and a frame whose cut
\* start is not before its cut end has no free interval.
C29_FreeInsideClampedFrame ==
    av.pc \in {"loop", "done"} /\ av.out = "frame" =>
        LET date_info == av.dates_info[av.i - 1]
            frame == av.free_slots_by_frame[Len(av.free_slots_by_frame)]
            lo == IntMax(StrpHM(date_info.time), StrpHM(day_start))
            hi == IntMin(StrpHM(date_info.end_time), StrpHM(day_end))
        IN /\ lo >= hi => frame.free_slots = <<>>
           /\ \A k \in 1..Len(frame.free_slots) :
                 /\ lo <= StrpHM(frame.free_slots[k].start)
                 /\ StrpHM(frame.free_slots[k].start) < StrpHM(frame.free_slots[k].end)
                 /\ StrpHM(frame.free_slots[k].end) <= hi

(***************************************************************************)
(* app.handle_message: the reply of one webhook event.  The handler's      *)
(* response is sent with reply_message inside `for attempt in              *)
(* range(max_retries)`; whatever escapes the outer try is answered by the  *)
(* error reply, sent inside `for attempt in range(2)`.  Each call of       *)
(* reply_message ends in one of SendOutcomes.  Delays are in sixteenths of *)
(* a second.                                                               *)
(***************************************************************************)
max_retries == 3

fallback_retries == 2

retry_delay == 24

\* what one call of reply_message does: it returns, or raises
\* LineBotApiError with status 429, LineBotApiError whose text names an SSL
\* failure, another LineBotApiError, an Exception whose text names an SSL
\* failure, or another Exception
SendOutcomes == {"ok", "api_429", "api_ssl", "api_error", "ssl", "error"}

\* "SSL SYSCALL error" in error_msg or "EOF detected" in error_msg
IsSSL(outcome) == outcome \in {"api_ssl", "ssl"}

\* the branches that only sleep: status_code == 429 of a LineBotApiError, and
\* the SSL text of either exception class
OnlySleeps(outcome) == outcome = "api_429" \/ IsSSL(outcome)

InitReply ==
    /\ av = [pc |-> "handle", attempt |-> 0, retry_delay |-> retry_delay,
             sent |-> <<>>, raised |-> FALSE, fallback |-> <<>>]
    /\ fs = Idle
    /\ nz = Idle

\* response = line_bot_handler.handle_message(event): a response, or an
\* exception that the outer try catches
HandleMessage ==
    /\ av.pc = "handle"
    /\ \E handled \in BOOLEAN :
          av' = IF handled THEN [av EXCEPT !.pc = "send"]
                ELSE [av EXCEPT !.pc = "fallback", !.raised = TRUE]
    /\ UNCHANGED <<fs, nz>>

\* one pass of the body of `for attempt in range(max_retries)`
ReplyMessage ==
    /\ av.pc = "send"
    /\ av.attempt < max_retries
    /\ \E outcome \in SendOutcomes :
          LET sent == Append(av.sent, outcome)
              next_pc == IF av.attempt + 1 < max_retries THEN "send" ELSE "end"
          IN av' =
                IF outcome = "ok"
                THEN [av EXCEPT !.sent = sent, !.pc = "end"]
                ELSE IF OnlySleeps(outcome)
                THEN [av EXCEPT !.sent = sent, !.attempt = @ + 1, !.pc = next_pc,
                                !.retry_delay = IF IsSSL(outcome) THEN (@ * 3) \div 2
                                                ELSE @]
                ELSE IF av.attempt < max_retries - 1
                THEN [av EXCEPT !.sent = sent, !.attempt = @ + 1, !.pc = "send"]
                ELSE [av EXCEPT !.sent = sent, !.raised = TRUE, !.pc = "fallback"]
    /\ UNCHANGED <<fs, nz>>

\* one pass of the body of `for attempt in range(2)` of the except block
FallbackReply ==
    /\ av.pc = "fallback"
    /\ Len(av.fallback) < fallback_retries
    /\ \E delivered \in BOOLEAN :
          LET tried == Append(av.fallback, delivered)
          IN av' = [av EXCEPT !.fallback = tried,
                              !.pc = IF delivered \/ Len(tried) = fallback_retries
                                     THEN "end" ELSE "fallback"]
    /\ UNCHANGED <<fs, nz>>

NextReply == HandleMessage \/ ReplyMessage \/ FallbackReply

SpecReply == InitReply /\ [][NextReply]_vars

\* C30: the reply loop makes at most 3 send attempts and stops at the first
\* success; whenever all 3 attempts fail, whatever the error, the failure is
\* raised, so that the error reply is attempted, itself at most 2 times.
C30_AllFailedReachesFallback ==
    /\ Len(av.sent) <= 3
    /\ \A k \in 1..Len(av.sent) : av.sent[k] = "ok" => k = Len(av.sent)
    /\ Len(av.fallback) <= 2
    /\ av.pc = "end" /\ Len(av.sent) = 3 /\ (\A k \in 1..3 : av.sent[k] # "ok") =>
          av.raised /\ Len(av.fallback) >= 1

====
